---- MODULE Spec2Model ----
(***************************************************************************)
(* Model of grpcfy: the per-call state machines and their dispatchers.     *)
(*                                                                         *)
(* Spec        the server-side server-stream FSM                           *)
(*             (ServerStreamMethodContext::Impl), its user handle          *)
(*             (ServerStreamMethod), the dispatcher threads of one         *)
(*             completion queue (ServiceEngine::processQueue) and the      *)
(*             runtime's side of the call (tags in flight, remote cancel). *)
(* ClientSpec  the client engine (ClientEngine), its strand, its stream    *)
(*             registry (ServerStreamEntry) and the client stream FSM      *)
(*             (ServerStreamContext).                                      *)
(***************************************************************************)
EXTENDS Integers, Sequences, FiniteSets, TLC

(***************************************************************************)
(* Bounds of the server-stream model.                                      *)
(***************************************************************************)
\* number of push/close calls the user threads make on the handle
MaxPosts == 3
\* dispatcher threads working on the completion queue
MaxThreads == 2

\* payloads of the notifications the user pushes
Msgs == {"a", "b"}
\* statuses the user closes the stream with
Statuses == {"OK", "ABORTED"}

VARIABLES
    fsm,               \* the fields of ServerStreamMethodContext::Impl + liveness of the context
    cq,                \* tags of the FSM in flight on the completion queue, by kind of operation
    hand,              \* per dispatcher thread: the event Next() returned, not yet delivered
    started,           \* the runtime matched a request to the FSM's call
    remote_cancelled,  \* the remote cancelled the call
    is_cancelled,      \* what server_context.IsCancelled() returns
    finish_done,       \* the Finish operation completed
    queue_shutdown,    \* ServerCompletionQueue::Shutdown() was called
    wire,              \* the operations issued to stream_writer, in order
    posted,            \* the notifications of the post() calls, in the order they took the mutex
    posts,             \* number of push/close calls made so far
    handle,            \* the user callback received the ServerStreamMethod handle
    accepting,         \* replacement FSMs spawned into AwaitingRequest
    saw_not_ok,        \* some event was returned with ok = false
    cancel_observed,   \* some event delivery saw IsCancelled() = true
    illegal,           \* an "illegal state" / assert(false) branch was taken
    faulted,           \* an event was delivered to a destroyed context
    observed,          \* what the user callback found when it was invoked
    deletes            \* how many times delete this was executed on the context

serverVars == <<fsm, cq, hand, started, remote_cancelled, is_cancelled, finish_done,
                queue_shutdown, wire, posted, posts, handle, accepting, saw_not_ok,
                cancel_observed, illegal, faulted, observed, deletes>>

(***************************************************************************)
(* Bounds of the client model.                                             *)
(***************************************************************************)
\* launchServerStream calls the user makes
MaxLaunches == 2
\* shutdownServerStream calls the user makes
MaxShutdowns == 1
\* stream FSM objects, launched or cloned for a reconnect
MaxFsms == 2
\* notifications the server sends on one connection
MaxNotes == 2
\* ClientEngine::run calls the user makes
MaxRuns == 1
\* executeSingularCall calls the user makes
MaxSingulars == 2
\* ClientEngine::run calls the user makes where the singular calls are made
MaxEngineRuns == 2
\* register...Method calls the user makes
MaxRegistrations == 4
\* bits of a Pointer where tags are packed and unpacked
PointerBits == 8
\* the size limits tried go up to
MaxLimit == 6
\* Options::handlers_per_thread of the server
HandlersPerThread == 2
\* requests the runtime accepts on one queue
MaxAccepted == 3

Sessions == {"s1", "s2"}
\* the order std::map iterates the registry in
SessionOrder == <<"s1", "s2">>
\* request types (std::type_index of Call::Request)
Types == {"R1", "R2"}
\* statuses Finish may report
FinishStatuses == {"OK", "ABORTED", "CANCELLED"}
\* the optionals a ServerStreamCall may carry: reconnect_policy ("unset" is an
\* empty optional), deadline and reconnect_interval in ms (0 is unset)
CallOptions ==
    {[reconnect_policy |-> "unset", deadline |-> 0, reconnect_interval |-> 0],
     [reconnect_policy |-> "Relaunch", deadline |-> 10, reconnect_interval |-> 100],
     [reconnect_policy |-> "Shutdown", deadline |-> 0, reconnect_interval |-> 0]}

VARIABLES
    client_state,       \* ClientEngine::state
    phase,              \* how far ~ClientEngine has got
    aborted,            \* the process was terminated (failed assert, std::terminate)
    strand,             \* closures posted to the strand and not yet run, oldest first
    registry,           \* ClientEngine::server_stream_contexts : session id -> ServerStreamEntry
    fsms,               \* the ServerStreamContext objects ever constructed
    ctag,               \* per FSM: the operation whose tag is in flight on the completion queue
    ctx_cancelled,      \* the grpc::ClientContexts TryCancel was called on
    next_fsm,           \* the next FSM (and ClientContext) to construct
    reserved,           \* FSM objects spoken for by calls and completions under way
    launches,           \* launchServerStream calls made
    shutdowns,          \* shutdownServerStream calls made
    runs,               \* ClientEngine::run calls made
    rejected,           \* launches doLaunchServerStream turned down: <<callback, reason>>
    shutdown_processed, \* sessions doShutdownServerStream was run for
    active_at_destroy   \* callbacks of the streams active when ~ClientEngine began

clientVars == <<client_state, phase, aborted, strand, registry, fsms, ctag,
                ctx_cancelled, next_fsm, reserved, launches, shutdowns, runs, rejected,
                shutdown_processed, active_at_destroy>>

(***************************************************************************)
(* The server-side singular FSM (SingularMethodContext), its user handle   *)
(* (SingularMethod) and its dispatcher.                                     *)
(***************************************************************************)
\* the contexts of one singular method the model constructs
MaxContexts == 3

\* responses the user answers with
Responses == {<<"value", "r">>, <<"error", "ABORTED">>}

VARIABLES
    sm,             \* per context: the fields of SingularMethodContext + liveness of the object
    sm_born,        \* the number of contexts constructed so far
    sm_tags,        \* tags of the FSM in flight on the completion queue
    sm_hand,        \* the event Next() returned for the FSM, not yet delivered
    sm_owner,       \* who owns the context: "queue", or "user" (SingularMethod::method_context)
    sm_log,         \* the states in which the FSM handled ok = true events, in order
    sm_ops,         \* the runtime operations and user calls the FSM issued, in order
    sm_shutdown,    \* the queue was shut down
    sm_gone,        \* the client is gone: Finish completes with ok = false
    sm_illegal      \* an assert of the FSM failed

VARIABLES
    calls,          \* per singular call: the SingularCallContext built for it, what its callback got
    singulars,      \* executeSingularCall calls made so far
    workers         \* processEvents loops posted to the thread pool

callVars == <<calls, singulars, workers>>

VARIABLES
    singular_methods,       \* ServiceEngine::singular_methods : descriptor -> handler
    server_stream_methods,  \* ServiceEngine::server_stream_methods : descriptor -> handler
    registrations,          \* registration calls made so far
    last_registration       \* the last registration call and what it threw

registryVars == <<singular_methods, server_stream_methods, registrations, last_registration>>

VARIABLES
    tag_pc,         \* where the tag followed is: "arming", "queued", "dispatched"
    tag_this,       \* the address of the context that arms an operation
    tag_flags,      \* the flags it passes to tagify
    tag_value,      \* the tag handed to the runtime
    tag_unpacked    \* the context and the flags the dispatcher unpacked

tagVars == <<tag_pc, tag_this, tag_flags, tag_value, tag_unpacked>>
singularVars == <<sm, sm_born, sm_tags, sm_hand, sm_owner, sm_log, sm_ops, sm_shutdown, sm_gone,
                  sm_illegal>>

VARIABLES
    mutex,             \* the threads that own Impl::mutex: none or one
    at,                \* where each thread is: idle, in the user callback, in post()
    posting,           \* the notification each thread inside post() brought
    terminated,        \* std::terminate was called
    impl_stale         \* the Impl block was accessed after its destruction
lockVars == <<mutex, at, posting, terminated, impl_stale>>

VARIABLES
    request_size_limit_bytes,   \* Options::request_size_limit_bytes
    response_size_limit_bytes,  \* Options::response_size_limit_bytes
    options_call                \* the last setter call, and the limits before it
optionsVars == <<request_size_limit_bytes, response_size_limit_bytes, options_call>>

VARIABLES
    setup,             \* spawns each dispatcher thread has done in setupQueue
    population,        \* FSMs in AwaitingRequest, per registered method
    pop_hand,          \* the request completion Next returned to each thread
    pop_accepted,      \* requests accepted so far
    pop_shutdown       \* the queue was shut down
populationVars == <<setup, population, pop_hand, pop_accepted, pop_shutdown>>

\* everything but the server-stream model's variables
notServerVars == <<clientVars, singularVars, callVars, registryVars, tagVars, lockVars, optionsVars, populationVars>>
\* everything but the server-stream model's variables and its mutex
notLockVars == <<clientVars, singularVars, callVars, registryVars, tagVars, optionsVars, populationVars>>
\* everything but the client model's variables
notClientVars == <<serverVars, singularVars, callVars, registryVars, tagVars, lockVars, optionsVars, populationVars>>
\* everything but the singular model's variables
notSingularVars == <<serverVars, clientVars, callVars, registryVars, tagVars, lockVars, optionsVars, populationVars>>
\* everything but the variables of the client model and of its singular calls
notEngineVars == <<serverVars, singularVars, registryVars, tagVars, lockVars, optionsVars, populationVars>>
\* everything but the variables of the server's method registry
notRegistryVars == <<serverVars, clientVars, singularVars, callVars, tagVars, lockVars, optionsVars, populationVars>>

\* everything but the variables of the tag followed
notTagVars == <<serverVars, clientVars, singularVars, callVars, registryVars, lockVars, optionsVars, populationVars>>

\* everything but the client options
notOptionsVars == <<serverVars, clientVars, singularVars, callVars, registryVars, tagVars, lockVars, populationVars>>
\* everything but the accepting FSMs of a queue
notPopulationVars == <<serverVars, clientVars, singularVars, callVars, registryVars, tagVars, lockVars, optionsVars>>

vars == <<serverVars, clientVars, singularVars, callVars, registryVars, tagVars, lockVars, optionsVars, populationVars>>

(***************************************************************************)
(* Pointer tagging: the flags ride in the two low bits of the tag.         *)
(***************************************************************************)
kFlagsMask == 3
\* Tag::AsyncNotifyWhenDone
AsyncNotifyWhenDone == 1

Kinds == {"request", "alarm", "write", "finish", "done"}
\* the flags each operation's tag is armed with: tagify() everywhere but the
\* AsyncNotifyWhenDone registration of the constructor
FlagsOf(kind) == IF kind = "done" THEN AsyncNotifyWhenDone ELSE 0

None == [kind |-> "none"]

Threads == 1..MaxThreads

(***************************************************************************)
(* Notifications: NotificationOneOf is a message or a terminal status.     *)
(***************************************************************************)
Message(m) == <<"msg", m>>
Status(st) == <<"status", st>>
\* !notification : the outcome holds the error alternative
IsStatus(n) == n[1] = "status"
Notifications == {Message(m) : m \in Msgs} \cup {Status(st) : st \in Statuses}

(***************************************************************************)
(* The FSM, as functions from its fields to its fields and the runtime     *)
(* operations it issues (out).                                             *)
(***************************************************************************)
Result(s, o) == [fsm |-> s, out |-> o]

\* MethodContext::suicide : delete this
Suicide(s) == Result([s EXCEPT !.alive = FALSE], <<>>)

\* a variant that takes the newest queued notification instead of the oldest
ProcessPendingNotificationNewestFirst(s) ==
    IF s.notifications_queue = <<>>
    THEN Result(s, << <<"AssertFail">> >>)
    ELSE LET notification == s.notifications_queue[Len(s.notifications_queue)]
             popped == [s EXCEPT !.notifications_queue = SubSeq(@, 1, Len(@) - 1)]
         IN  IF ~IsStatus(notification)
             THEN Result([popped EXCEPT !.state = "AwaitingWrite"],
                         << <<"Write", notification[2]>> >>)
             ELSE Result([popped EXCEPT !.state = "AwaitingFinish"],
                         << <<"Finish", notification[2]>> >>)

\* Impl::processPendingNotification
ProcessPendingNotification(s) ==
    IF s.notifications_queue = <<>>
    THEN Result(s, << <<"AssertFail">> >>)
    ELSE LET notification == Head(s.notifications_queue)
             popped == [s EXCEPT !.notifications_queue = Tail(@)]
         IN  IF ~IsStatus(notification)
             THEN Result([popped EXCEPT !.state = "AwaitingWrite"],
                         << <<"Write", notification[2]>> >>)
             ELSE Result([popped EXCEPT !.state = "AwaitingFinish"],
                         << <<"Finish", notification[2]>> >>)

\* a variant that hands the request to the user without spawning a replacement
OnRequestWithoutSpawn(s, flags) ==
    LET r == [s EXCEPT !.state = "AwaitingNotifications"]
    IN  Result(r, << <<"Callback", r.state>> >>)

\* Impl::onRequest
OnRequest(s, flags) ==
    LET r == [s EXCEPT !.state = "AwaitingNotifications"]
    IN  Result(r, << <<"Spawn">>, <<"Callback", r.state>> >>)

\* a variant that leaves the counter of pending alarms as it is
OnAlarmKeepsCount(s, flags) ==
    IF s.notifications_queue = <<>> \/ s.alarm_count < 1
    THEN Result(s, << <<"AssertFail">> >>)
    ELSE ProcessPendingNotification(s)

\* Impl::onAlarm
OnAlarm(s, flags) ==
    IF s.notifications_queue = <<>> \/ s.alarm_count < 1
    THEN Result(s, << <<"AssertFail">> >>)
    ELSE ProcessPendingNotification([s EXCEPT !.alarm_count = @ - 1])

\* a variant that waits for notifications whatever is queued
OnWriteIgnoresQueue(s, flags) ==
    Result([s EXCEPT !.state = "AwaitingNotifications"], <<>>)

\* Impl::onWrite
OnWrite(s, flags) ==
    IF s.notifications_queue = <<>>
    THEN Result([s EXCEPT !.state = "AwaitingNotifications"], <<>>)
    ELSE ProcessPendingNotification(s)

\* a variant that keeps writing what is queued after the cancellation
OnCancelledKeepsWriting(s, flags) ==
    IF s.notifications_queue # <<>>
    THEN ProcessPendingNotification(s)
    ELSE Suicide(s)

\* a variant that arms an alarm to drain the queue after the cancellation
OnCancelledRearms(s, flags) ==
    Result([s EXCEPT !.notifications_queue = <<>>], << <<"AlarmSet">> >>)

\* Impl::onCancelled
OnCancelled(s, flags) ==
    IF s.alarm_count <= 1
    THEN Suicide(s)
    ELSE Result([s EXCEPT !.alarm_count = @ - 1, !.notifications_queue = <<>>], <<>>)

\* Impl::onFinished
OnFinished(s, flags) ==
    IF flags = AsyncNotifyWhenDone
    THEN Result(s, <<>>)
    ELSE Suicide(s)

\* Impl::onEvent ; cancelled is server_context.IsCancelled()
OnEvent(s, ok, flags, cancelled) ==
    IF ~ok
    THEN Suicide(s)
    ELSE LET c == IF cancelled
                  THEN [s EXCEPT !.state = "Cancelled", !.drop_notifications = TRUE]
                  ELSE s
         IN  CASE c.state \in {"AwaitingNotifications", "StandingBy"} ->
                      Result(c, << <<"AssertFail">> >>)
               [] c.state = "AwaitingRequest" -> OnRequest(c, flags)
               [] c.state = "AwaitingAlarm" -> OnAlarm(c, flags)
               [] c.state = "AwaitingWrite" -> OnWrite(c, flags)
               [] c.state = "AwaitingFinish" -> OnFinished(c, flags)
               [] c.state = "Cancelled" -> OnCancelled(c, flags)

\* whether Impl::onEvent, run on the fields of a context that has deleted
\* itself, reaches MethodContext::suicide once more
SuicideAgain(s, ok, flags, cancelled) ==
    ~OnEvent([s EXCEPT !.alive = TRUE], ok, flags, cancelled).fsm.alive

\* a variant without the drop_notifications test
PostWithoutDrop(s, notification) ==
    LET d == IF IsStatus(notification)
             THEN [s EXCEPT !.drop_notifications = TRUE]
             ELSE s
    IN  CASE d.state \in {"StandingBy", "AwaitingRequest", "AwaitingFinish"} ->
                 Result(d, << <<"AssertFail">> >>)
          [] d.state \in {"AwaitingAlarm", "AwaitingWrite"} ->
                 Result([d EXCEPT !.notifications_queue = Append(@, notification)], <<>>)
          [] d.state = "AwaitingNotifications" ->
                 Result([d EXCEPT !.state = "AwaitingAlarm",
                                  !.alarm_count = @ + 1,
                                  !.notifications_queue = Append(@, notification)],
                        << <<"AlarmSet">> >>)
          [] d.state = "Cancelled" -> Result(d, <<>>)

\* a variant that arms an alarm for every notification it queues
PostArmsWhileBusy(s, notification) ==
    IF s.drop_notifications
    THEN Result(s, <<>>)
    ELSE LET d == IF IsStatus(notification)
                  THEN [s EXCEPT !.drop_notifications = TRUE]
                  ELSE s
         IN  CASE d.state \in {"StandingBy", "AwaitingRequest", "AwaitingFinish"} ->
                      Result(d, << <<"AssertFail">> >>)
               [] d.state \in {"AwaitingAlarm", "AwaitingWrite", "AwaitingNotifications"} ->
                      Result([d EXCEPT !.state = IF @ = "AwaitingNotifications"
                                                 THEN "AwaitingAlarm" ELSE @,
                                       !.alarm_count = @ + 1,
                                       !.notifications_queue = Append(@, notification)],
                             << <<"AlarmSet">> >>)
               [] d.state = "Cancelled" -> Result(d, <<>>)

\* a variant that arms the alarm and stays in AwaitingNotifications
PostKeepsWaiting(s, notification) ==
    IF s.drop_notifications
    THEN Result(s, <<>>)
    ELSE LET d == IF IsStatus(notification)
                  THEN [s EXCEPT !.drop_notifications = TRUE]
                  ELSE s
         IN  CASE d.state \in {"StandingBy", "AwaitingRequest", "AwaitingFinish"} ->
                      Result(d, << <<"AssertFail">> >>)
               [] d.state \in {"AwaitingAlarm", "AwaitingWrite"} ->
                      Result([d EXCEPT !.notifications_queue = Append(@, notification)], <<>>)
               [] d.state = "AwaitingNotifications" ->
                      Result([d EXCEPT !.alarm_count = @ + 1,
                                       !.notifications_queue = Append(@, notification)],
                             << <<"AlarmSet">> >>)
               [] d.state = "Cancelled" -> Result(d, <<>>)

\* a variant that hands a notification to the stream writer at once when the
\* FSM is busy, instead of queueing it
PostWritesAtOnce(s, notification) ==
    IF s.drop_notifications
    THEN Result(s, <<>>)
    ELSE LET d == IF IsStatus(notification)
                  THEN [s EXCEPT !.drop_notifications = TRUE]
                  ELSE s
         IN  CASE d.state \in {"StandingBy", "AwaitingRequest", "AwaitingFinish"} ->
                      Result(d, << <<"AssertFail">> >>)
               [] d.state \in {"AwaitingAlarm", "AwaitingWrite"} ->
                      IF IsStatus(notification)
                      THEN Result(d, << <<"Finish", notification[2]>> >>)
                      ELSE Result(d, << <<"Write", notification[2]>> >>)
               [] d.state = "AwaitingNotifications" ->
                      Result([d EXCEPT !.state = "AwaitingAlarm",
                                       !.alarm_count = @ + 1,
                                       !.notifications_queue = Append(@, notification)],
                             << <<"AlarmSet">> >>)
               [] d.state = "Cancelled" -> Result(d, <<>>)

\* a variant that keeps accepting notifications after the stream was closed
PostKeepsAccepting(s, notification) ==
    CASE s.state \in {"StandingBy", "AwaitingRequest", "AwaitingFinish"} ->
             Result(s, << <<"AssertFail">> >>)
      [] s.state \in {"AwaitingAlarm", "AwaitingWrite"} ->
             Result([s EXCEPT !.notifications_queue = Append(@, notification)], <<>>)
      [] s.state = "AwaitingNotifications" ->
             Result([s EXCEPT !.state = "AwaitingAlarm",
                              !.alarm_count = @ + 1,
                              !.notifications_queue = Append(@, notification)],
                    << <<"AlarmSet">> >>)
      [] s.state = "Cancelled" -> Result(s, <<>>)

\* Impl::post
Post(s, notification) ==
    IF s.drop_notifications
    THEN Result(s, <<>>)
    ELSE LET d == IF IsStatus(notification)
                  THEN [s EXCEPT !.drop_notifications = TRUE]
                  ELSE s
         IN  CASE d.state \in {"StandingBy", "AwaitingRequest", "AwaitingFinish"} ->
                      Result(d, << <<"AssertFail">> >>)
               [] d.state \in {"AwaitingAlarm", "AwaitingWrite"} ->
                      Result([d EXCEPT !.notifications_queue = Append(@, notification)], <<>>)
               [] d.state = "AwaitingNotifications" ->
                      Result([d EXCEPT !.state = "AwaitingAlarm",
                                       !.alarm_count = @ + 1,
                                       !.notifications_queue = Append(@, notification)],
                             << <<"AlarmSet">> >>)
               [] d.state = "Cancelled" -> Result(d, <<>>)

\* Impl::run
RunImpl(s) ==
    IF s.state # "StandingBy"
    THEN Result(s, << <<"AssertFail">> >>)
    ELSE Result([s EXCEPT !.state = "AwaitingRequest"], << <<"Accept">> >>)

(***************************************************************************)
(* The runtime's side: what the operations an FSM step issued do to the    *)
(* completion queue, the wire and the user.                                *)
(***************************************************************************)
Count(out, op) == Cardinality({i \in 1..Len(out) : out[i][1] = op})

RECURSIVE WireOps(_)
WireOps(out) ==
    IF out = <<>> THEN <<>>
    ELSE IF Head(out)[1] \in {"Write", "Finish"}
         THEN <<Head(out)>> \o WireOps(Tail(out))
         ELSE WireOps(Tail(out))

\* the tags the issued operations put in flight
Arm(q, out) ==
    [k \in Kinds |->
        q[k] + CASE k = "request" -> Count(out, "Accept")
                 [] k = "alarm" -> Count(out, "AlarmSet")
                 [] k = "write" -> Count(out, "Write")
                 [] k = "finish" -> Count(out, "Finish")
                 [] OTHER -> 0]

\* what the callbacks invoked by the operations of out find: the state the FSM
\* is in and the replacements armed by then, n of them before out began
RECURSIVE Observations(_, _)
Observations(out, n) ==
    IF out = <<>> THEN <<>>
    ELSE IF Head(out)[1] = "Callback"
         THEN <<[state |-> Head(out)[2], accepting |-> n]>> \o Observations(Tail(out), n)
         ELSE Observations(Tail(out), IF Head(out)[1] = "Spawn" THEN n + 1 ELSE n)

\* the effects of one step of the FSM, r = Result(...), on everything but hand
\* and the count of destructions
ApplyEffects(r, q) ==
    /\ fsm' = r.fsm
    /\ cq' = Arm(q, r.out)
    /\ wire' = wire \o WireOps(r.out)
    /\ accepting' = accepting + Count(r.out, "Spawn")
    /\ handle' = (handle \/ Count(r.out, "Callback") > 0)
    /\ illegal' = (illegal \/ Count(r.out, "AssertFail") > 0)
    /\ observed' = observed \o Observations(r.out, accepting)

\* one step of a live FSM: its effects, and MethodContext::suicide counted
Apply(r, q) ==
    /\ ApplyEffects(r, q)
    /\ deletes' = deletes + (IF fsm.alive /\ ~r.fsm.alive THEN 1 ELSE 0)

(***************************************************************************)
(* Initial state: a context just constructed by                            *)
(* ServerStreamMethodMetadataImpl::spawn. The constructor registered the   *)
(* AsyncNotifyWhenDone tag.                                                *)
(***************************************************************************)
ServerInit ==
    /\ fsm = [state |-> "StandingBy", alarm_count |-> 0, drop_notifications |-> FALSE,
              notifications_queue |-> <<>>, alive |-> TRUE]
    /\ cq = [k \in Kinds |-> IF k = "done" THEN 1 ELSE 0]
    /\ hand = [t \in Threads |-> None]
    /\ started = FALSE
    /\ remote_cancelled = FALSE
    /\ is_cancelled = FALSE
    /\ finish_done = FALSE
    /\ queue_shutdown = FALSE
    /\ wire = <<>>
    /\ posted = <<>>
    /\ posts = 0
    /\ handle = FALSE
    /\ accepting = 0
    /\ saw_not_ok = FALSE
    /\ cancel_observed = FALSE
    /\ illegal = FALSE
    /\ observed = <<>>
    /\ deletes = 0
    /\ faulted = FALSE

(***************************************************************************)
(* Actions of the server-stream model.                                     *)
(***************************************************************************)
\* ServerStreamMethodContext::run, called by spawn right after construction
Run ==
    /\ fsm.alive /\ fsm.state = "StandingBy"
    /\ Apply(RunImpl(fsm), cq)
    /\ UNCHANGED <<hand, started, remote_cancelled, is_cancelled, finish_done,
                   queue_shutdown, posted, posts, saw_not_ok, cancel_observed, faulted>>
    /\ UNCHANGED notServerVars

\* when the runtime completes the operation of a tag, and with which ok
Deliverable(kind, ok) ==
    CASE kind = "request" -> IF queue_shutdown THEN ~ok ELSE ok
      [] kind = "alarm" -> ok
      [] kind = "write" -> ok \/ remote_cancelled
      [] kind = "finish" -> ok \/ remote_cancelled
      [] kind = "done" -> ok /\ started /\ (remote_cancelled \/ cq["finish"] > 0 \/ finish_done)

\* ServiceEngine::processQueue : queue->Next(&tag, &ok) returns on thread t.
\* The runtime finalizes the AsyncNotifyWhenDone operation as Next returns it,
\* which is when IsCancelled() starts to tell the truth.
Dequeue(t, kind, ok) ==
    /\ hand[t] = None
    /\ cq[kind] > 0
    /\ Deliverable(kind, ok)
    /\ hand' = [hand EXCEPT ![t] = [kind |-> kind, ok |-> ok, flags |-> FlagsOf(kind) % (kFlagsMask + 1)]]
    /\ cq' = [cq EXCEPT ![kind] = @ - 1]
    /\ started' = (started \/ (kind = "request" /\ ok))
    /\ is_cancelled' = (is_cancelled \/ (kind = "done" /\ remote_cancelled))
    /\ finish_done' = (finish_done \/ kind = "finish")
    /\ saw_not_ok' = (saw_not_ok \/ ~ok)
    /\ UNCHANGED <<fsm, remote_cancelled, queue_shutdown, wire, posted, posts, handle,
                   accepting, cancel_observed, illegal, faulted, observed, deletes>>
    /\ UNCHANGED notServerVars

\* ServiceEngine::processQueue : context->onEvent(ok, flags) on thread t, the
\* whole critical section of Impl::onEvent
Deliver(t) ==
    /\ hand[t] # None
    /\ fsm.alive
    /\ Apply(OnEvent(fsm, hand[t].ok, hand[t].flags, is_cancelled), cq)
    /\ cancel_observed' = (cancel_observed \/ (hand[t].ok /\ is_cancelled))
    /\ hand' = [hand EXCEPT ![t] = None]
    /\ UNCHANGED <<started, remote_cancelled, is_cancelled, finish_done, queue_shutdown,
                   posted, posts, saw_not_ok, faulted>>
    /\ UNCHANGED notServerVars

\* the same call on a context that has deleted itself: a use after free. The
\* build either faults there, or runs the handler on the freed fields.
DeliverToDead(t) ==
    /\ hand[t] # None
    /\ ~fsm.alive
    /\ faulted' = TRUE
    /\ hand' = [hand EXCEPT ![t] = None]
    /\ \/ UNCHANGED <<fsm, cq, wire, accepting, handle, illegal, cancel_observed, observed,
                      deletes>>
       \/ /\ ApplyEffects(OnEvent(fsm, hand[t].ok, hand[t].flags, is_cancelled), cq)
          /\ cancel_observed' = (cancel_observed \/ (hand[t].ok /\ is_cancelled))
          /\ deletes' = deletes + (IF SuicideAgain(fsm, hand[t].ok, hand[t].flags,
                                                   is_cancelled)
                                   THEN 1 ELSE 0)
    /\ UNCHANGED <<started, remote_cancelled, is_cancelled, finish_done, queue_shutdown,
                   posted, posts, saw_not_ok>>
    /\ UNCHANGED notServerVars

\* ServerStreamMethod::push / close from a user thread: weak_ptr::lock, then
\* the whole critical section of Impl::post
UserPost(notification) ==
    /\ handle
    /\ posts < MaxPosts
    /\ posts' = posts + 1
    /\ IF fsm.alive
       THEN /\ Apply(Post(fsm, notification), cq)
            /\ posted' = Append(posted, notification)
       ELSE UNCHANGED <<fsm, cq, wire, accepting, handle, illegal, posted, observed,
                         deletes>>
    /\ UNCHANGED <<hand, started, remote_cancelled, is_cancelled, finish_done,
                   queue_shutdown, saw_not_ok, cancel_observed, faulted>>
    /\ UNCHANGED notServerVars

Push(m) == UserPost(Message(m))
Close(st) == UserPost(Status(st))

\* the remote cancels the call (or drops the connection)
RemoteCancel ==
    /\ started /\ ~remote_cancelled /\ ~finish_done /\ cq["done"] > 0
    /\ remote_cancelled' = TRUE
    /\ UNCHANGED <<fsm, cq, hand, started, is_cancelled, finish_done, queue_shutdown, wire,
                   posted, posts, handle, accepting, saw_not_ok, cancel_observed, illegal,
                   faulted, observed, deletes>>
    /\ UNCHANGED notServerVars

\* the queue is shut down while the FSM still waits for a request
QueueShutdown ==
    /\ ~queue_shutdown /\ ~started /\ cq["request"] > 0
    /\ queue_shutdown' = TRUE
    /\ UNCHANGED <<fsm, cq, hand, started, remote_cancelled, is_cancelled, finish_done, wire,
                   posted, posts, handle, accepting, saw_not_ok, cancel_observed, illegal,
                   faulted, observed, deletes>>
    /\ UNCHANGED notServerVars

(***************************************************************************)
(* Properties of the server-stream FSM.                                    *)
(***************************************************************************)
IsPrefix(a, b) == Len(a) <= Len(b) /\ \A i \in 1..Len(a) : a[i] = b[i]

\* the posts up to and including the first close
RECURSIVE UpToClose(_)
UpToClose(seq) ==
    IF seq = <<>> THEN <<>>
    ELSE IF IsStatus(Head(seq)) THEN <<Head(seq)>>
         ELSE <<Head(seq)>> \o UpToClose(Tail(seq))

AsWireOp(n) == IF IsStatus(n) THEN <<"Finish", n[2]>> ELSE <<"Write", n[2]>>

\* what the stream writer is to be asked for, given the posts that took the mutex
ExpectedWire == [i \in 1..Len(UpToClose(posted)) |-> AsWireOp(UpToClose(posted)[i])]

Closed == \E i \in 1..Len(posted) : IsStatus(posted[i])
HasFinish == \E i \in 1..Len(wire) : wire[i][1] = "Finish"

InHand(kind) == Cardinality({t \in Threads : hand[t] # None /\ hand[t].kind = kind})
\* tags of a kind the dispatcher has not delivered yet
InFlight(kind) == cq[kind] + InHand(kind)
\* nothing is left to complete but, possibly, AsyncNotifyWhenDone
Quiescent == \A k \in {"request", "alarm", "write", "finish"} : InFlight(k) = 0

\* C1: without remote cancellation and without an ok=false completion, the
\* Write operations issued are the pushed messages in the order the pushes took
\* the FSM mutex, each once, followed by the one Finish of the close: the wire is
\* always a prefix of that sequence, and it is the whole of it whenever no alarm,
\* write or finish tag is left in flight.
C1_StreamFifo ==
    (~remote_cancelled /\ ~saw_not_ok) =>
        /\ IsPrefix(wire, ExpectedWire)
        /\ (Quiescent /\ handle) => wire = ExpectedWire

C1_Witness ==
    /\ ~remote_cancelled /\ ~saw_not_ok
    /\ Len(wire) = 3 /\ wire[1] # wire[2] /\ wire[3] = <<"Finish", "OK">>
    /\ ~fsm.alive /\ Quiescent

\* C2: every event the dispatcher delivers reaches a context that is still
\* alive (no tag of a context is left pending when the context deletes itself).
C2_EventsReachLiveContext == ~faulted

\* C3: a context that observed the cancellation does not delete itself while
\* one of its alarm tags is still in flight.
C3_CancelDrainsAlarms ==
    (~fsm.alive /\ fsm.state = "Cancelled" /\ ~faulted) => InFlight("alarm") = 0

\* C4: from the event delivery that observes IsCancelled() on, no Write and no
\* Finish is issued, no alarm (nor any other tag) is armed, and the state stays
\* Cancelled.
C4_NoWriteAfterCancel ==
    [][cancel_observed' =>
          /\ wire' = wire
          /\ \A k \in Kinds : cq'[k] <= cq[k]
          /\ fsm'.state = "Cancelled"
          /\ fsm'.drop_notifications]_vars

C4_Witness ==
    /\ cancel_observed
    /\ fsm.notifications_queue # <<>>
    /\ Len(wire) > 0
    /\ posts = MaxPosts

\* C5: once a close has taken the mutex, a later push or close changes neither
\* the FSM (its queue included) nor the tags in flight nor the wire; and a Finish
\* is issued only after every message pushed before the close was written.
C5_DropAfterClose ==
    /\ [][(Closed /\ posts' = posts + 1) =>
              (fsm' = fsm /\ cq' = cq /\ wire' = wire)]_vars
    /\ [](HasFinish => wire = ExpectedWire)

C5_Witness ==
    /\ Closed /\ fsm.alive
    /\ Len(posted) > Len(UpToClose(posted))
    /\ HasFinish /\ Len(wire) >= 2

\* C23: whenever a live server-stream FSM is observed outside its critical
\* sections, its counter of pending alarms is not negative and is the number of
\* its alarm tags in flight: armed, and not yet handed to onEvent (queued, or
\* returned by Next to a dispatcher thread that has not called onEvent yet).
C23_AlarmCounter ==
    fsm.alive =>
        /\ fsm.alarm_count >= 0
        /\ fsm.alarm_count = InFlight("alarm")

\* an alarm is armed and counted while a live FSM waits for it
C23_Witness ==
    /\ fsm.alive /\ fsm.state = "AwaitingAlarm"
    /\ fsm.alarm_count = 1 /\ cq["alarm"] = 1
    /\ Len(wire) >= 1

\* C24: whenever a live server-stream FSM is in AwaitingNotifications between
\* critical sections its notification queue is empty, and whenever
\* notifications are queued an alarm or a write completion that will process
\* them is in flight.
C24_SteadyStateQueueEmpty ==
    fsm.alive =>
        /\ fsm.state = "AwaitingNotifications" => fsm.notifications_queue = <<>>
        /\ fsm.notifications_queue # <<>> => InFlight("alarm") + InFlight("write") > 0

\* the FSM wrote what was queued and is back to waiting, with nothing queued
C24_Witness ==
    /\ fsm.alive /\ fsm.state = "AwaitingNotifications"
    /\ Len(wire) >= 2 /\ Len(posted) >= 2
    /\ fsm.notifications_queue = <<>>

\* C25: once drop_notifications of a server-stream FSM is true it stays true,
\* and no step taken from then on (push, close or completion) arms an alarm for
\* that FSM.
C25_NoAlarmAfterDrop ==
    [][fsm.drop_notifications =>
          /\ fsm'.drop_notifications
          /\ cq'["alarm"] <= cq["alarm"]]_vars

\* after the close a push took the mutex and a completion was handled; no alarm
\* is in flight
C25_Witness ==
    /\ fsm.alive /\ fsm.drop_notifications /\ fsm.state = "AwaitingFinish"
    /\ Len(posted) >= 2 /\ ~IsStatus(posted[Len(posted)])
    /\ InFlight("alarm") = 0

\* a push or close takes the mutex of a live FSM that does not drop it
PostAccepted ==
    /\ posts' = posts + 1
    /\ fsm.alive /\ ~fsm.drop_notifications

\* the FSM after it queued the notification posted last
Queued(s) ==
    LET n == posted'[Len(posted')]
    IN  [s EXCEPT !.notifications_queue = Append(@, n),
                  !.drop_notifications = IsStatus(n)]

\* C26: a push or close accepted while the FSM is in AwaitingAlarm or
\* AwaitingWrite only appends to the notification queue: state, counter of
\* pending alarms, tags in flight and wire stay as they are. One accepted in
\* AwaitingNotifications appends, adds one to the counter, arms one alarm and
\* nothing else, and moves the FSM to AwaitingAlarm.
C26_PushProtocol ==
    [][PostAccepted =>
          /\ hand' = hand /\ wire' = wire
          /\ fsm.state \in {"AwaitingAlarm", "AwaitingWrite"} =>
                 fsm' = Queued(fsm) /\ cq' = cq
          /\ fsm.state = "AwaitingNotifications" =>
                 /\ fsm' = Queued([fsm EXCEPT !.state = "AwaitingAlarm",
                                              !.alarm_count = @ + 1])
                 /\ cq' = [cq EXCEPT !["alarm"] = @ + 1]]_vars

\* notifications were queued behind a pending write without a second alarm
C26_Witness ==
    /\ fsm.alive /\ fsm.state = "AwaitingWrite"
    /\ Len(fsm.notifications_queue) = 2
    /\ fsm.alarm_count = 0 /\ InFlight("alarm") = 0
    /\ Len(wire) = 1

\* C29: a server-stream context that issued Finish is destroyed at most once
\* over its lifetime, whichever of the finish completion and the
\* AsyncNotifyWhenDone event is delivered first: delete this never runs a
\* second time on the same context.
C29_DestroyedOnce == HasFinish => deletes <= 1

\* the states Impl::post asserts it is never called in
IllegalForPost(s) ==
    /\ s.state \in {"StandingBy", "AwaitingRequest", "AwaitingFinish"}
    /\ ~s.drop_notifications

\* C35: as long as the user can hold a handle on a live FSM, the FSM is not in
\* StandingBy, AwaitingRequest or AwaitingFinish with drop_notifications clear,
\* and no push or close that reaches the FSM finds it so.
C35_NoIllegalPost ==
    /\ []((handle /\ fsm.alive) => ~IllegalForPost(fsm))
    /\ [][(posted' # posted) => ~IllegalForPost(fsm)]_vars

\* the user closed the stream and posted twice more; the FSM waits for the
\* completion of Finish and has dropped what came after the close
C35_Witness ==
    /\ handle /\ fsm.alive /\ fsm.state = "AwaitingFinish"
    /\ Len(posted) = 3 /\ IsStatus(posted[1])
    /\ fsm.notifications_queue = <<>>
    /\ Len(wire) = 1

\* C38: the notification alarm of a live server-stream FSM is never armed while
\* an earlier arming of it is in flight: the counter of pending alarms and the
\* number of alarm tags in flight never exceed 1, and every arming finds both
\* at 0, however pushes, closes and the alarm and write completions interleave.
C38_SingleAlarm ==
    /\ [](fsm.alive => (fsm.alarm_count <= 1 /\ InFlight("alarm") <= 1))
    /\ [][(cq'["alarm"] > cq["alarm"]) =>
              (fsm.alarm_count = 0 /\ InFlight("alarm") = 0)]_vars

\* the alarm was armed a second time after a write completed, and a push that
\* came while it was in flight was queued behind it
C38_Witness ==
    /\ fsm.alive /\ fsm.state = "AwaitingAlarm"
    /\ fsm.alarm_count = 1 /\ InFlight("alarm") = 1
    /\ Len(posted) = 3 /\ Len(fsm.notifications_queue) = 2
    /\ Len(wire) = 1

\* Write and Finish operations of the stream writer that await their completion
Outstanding == InFlight("write") + InFlight("finish")

\* C39: a live server-stream FSM has at most one Write or Finish awaiting its
\* completion and no alarm in flight while it has one; each Write or Finish it
\* issues is then the only outstanding one, the completion of the one before
\* having been delivered.
C39_SingleWriterOp ==
    /\ [](fsm.alive => (Outstanding <= 1 /\ (Outstanding = 1 => InFlight("alarm") = 0)))
    /\ [][(fsm.alive /\ wire' # wire) =>
              (cq["write"] + cq["finish"] = 0 /\ Outstanding' = 1
                 /\ InFlight("alarm")' = 0)]_vars

\* a second Write awaits its completion, issued by the completion of the
\* first, with a third notification queued behind it
C39_Witness ==
    /\ fsm.alive /\ fsm.state = "AwaitingWrite"
    /\ Len(wire) = 2 /\ InFlight("write") = 1 /\ InFlight("finish") = 0
    /\ InFlight("alarm") = 0
    /\ Len(fsm.notifications_queue) = 1

ServerNext ==
    \/ Run
    \/ \E t \in Threads, kind \in Kinds, ok \in BOOLEAN : Dequeue(t, kind, ok)
    \/ \E t \in Threads : Deliver(t)
    \/ \E t \in Threads : DeliverToDead(t)
    \/ \E m \in Msgs : Push(m)
    \/ \E st \in Statuses : Close(st)
    \/ RemoteCancel
    \/ QueueShutdown

(***************************************************************************)
(* Client options: the size limits of requests and responses.              *)
(***************************************************************************)
\* Options::Options : std::mega::num * 32
kDefaultSizeLimitBytes == 32000000

\* SizeLimitBytes = std::optional<int> : empty, or one value
NoLimit == {}
LimitValues == ((0 - 1)..MaxLimit) \cup {kDefaultSizeLimitBytes}
SizeLimits == {NoLimit} \cup {{v} : v \in LimitValues}

\* limit && *limit <= 0
LimitRejected(limit) == \E v \in limit : v <= 0

NoOptionsCall ==
    [op |-> "none", limit |-> NoLimit, thrown |-> "none",
     request_before |-> NoLimit, response_before |-> NoLimit]

OptionsCall(op, limit, thrown) ==
    [op |-> op, limit |-> limit, thrown |-> thrown,
     request_before |-> request_size_limit_bytes,
     response_before |-> response_size_limit_bytes]

\* Options::Options
OptionsInit ==
    /\ request_size_limit_bytes = {kDefaultSizeLimitBytes}
    /\ response_size_limit_bytes = {kDefaultSizeLimitBytes}
    /\ options_call = NoOptionsCall

\* Options::set_request_size_limit_bytes
SetRequestSizeLimitBytes(limit) ==
    /\ IF LimitRejected(limit)
       THEN /\ options_call' = OptionsCall("set_request_size_limit_bytes", limit, "invalid_argument")
            /\ UNCHANGED <<request_size_limit_bytes, response_size_limit_bytes>>
       ELSE /\ options_call' = OptionsCall("set_request_size_limit_bytes", limit, "none")
            /\ request_size_limit_bytes' = limit
            /\ UNCHANGED response_size_limit_bytes
    /\ UNCHANGED notOptionsVars

\* Options::set_response_size_limit_bytes
SetResponseSizeLimitBytes(limit) ==
    /\ IF LimitRejected(limit)
       THEN /\ options_call' = OptionsCall("set_response_size_limit_bytes", limit, "invalid_argument")
            /\ UNCHANGED <<request_size_limit_bytes, response_size_limit_bytes>>
       ELSE /\ options_call' = OptionsCall("set_response_size_limit_bytes", limit, "none")
            /\ request_size_limit_bytes' = limit
            /\ UNCHANGED response_size_limit_bytes
    /\ UNCHANGED notOptionsVars

\* Options::get_request_size_limit_bytes
GetRequestSizeLimitBytes == request_size_limit_bytes
\* Options::get_response_size_limit_bytes
GetResponseSizeLimitBytes == response_size_limit_bytes

OptionsNext ==
    \/ \E limit \in SizeLimits : SetRequestSizeLimitBytes(limit)
    \/ \E limit \in SizeLimits : SetResponseSizeLimitBytes(limit)

\* what the last setter call must have done to the limit it names (mine) and
\* to the other one (other)
SetterDid(mine, mine_before, other, other_before) ==
    IF LimitRejected(options_call.limit)
    THEN /\ options_call.thrown = "invalid_argument"
         /\ mine = mine_before /\ other = other_before
    ELSE /\ options_call.thrown = "none"
         /\ mine = options_call.limit /\ other = other_before

\* C21: set_response_size_limit_bytes(v) with v empty or positive makes
\* get_response_size_limit_bytes() return v and leaves the request limit alone,
\* set_request_size_limit_bytes(v) likewise changes the request limit only, and
\* a non-positive v is rejected with invalid_argument and changes neither.
C21_SizeLimits ==
    /\ options_call.op = "set_request_size_limit_bytes" =>
           SetterDid(GetRequestSizeLimitBytes, options_call.request_before,
                     GetResponseSizeLimitBytes, options_call.response_before)
    /\ options_call.op = "set_response_size_limit_bytes" =>
           SetterDid(GetResponseSizeLimitBytes, options_call.response_before,
                     GetRequestSizeLimitBytes, options_call.request_before)

(***************************************************************************)
(* Impl::mutex : who owns the lock of a server-stream FSM while events are *)
(* delivered and notifications posted. The remote does not cancel and the  *)
(* queue is not shut down here; the AsyncNotifyWhenDone tag stays queued.  *)
(***************************************************************************)
\* the thread of the user, next to the dispatcher threads
UserThread == MaxThreads + 1
LockThreads == Threads \cup {UserThread}
LockKinds == Kinds \ {"done"}

\* the threads that hold a shared_ptr to the Impl block: weak_ptr::lock in
\* push / close, released when the call returns
ImplOwners == {t \in LockThreads : at[t] \in {"post", "blocked"}}

\* ~Impl has run: the context, which holds the block through its member impl,
\* was deleted and no push or close holds the block any more
ImplFreed == ~fsm.alive /\ ImplOwners = {}

LockInit ==
    /\ mutex = {}
    /\ at = [t \in LockThreads |-> "idle"]
    /\ posting = [t \in LockThreads |-> <<>>]
    /\ terminated = FALSE
    /\ impl_stale = FALSE

\* Impl::onEvent on thread t, from the scoped_lock to the user callback, or to
\* the return if no callback is invoked. context->suicide() deletes the context
\* and with it the member impl: unless a push or close holds the block, ~Impl
\* runs there, with the mutex locked, and the scoped_lock then unlocks a mutex
\* in freed memory, which passes unnoticed or faults.
LockedDeliver(t) ==
    /\ ~terminated
    /\ at[t] = "idle" /\ hand[t] # None
    /\ fsm.alive
    /\ mutex = {}
    /\ LET r == OnEvent(fsm, hand[t].ok, hand[t].flags, is_cancelled)
       IN  /\ Apply(r, cq)
           /\ IF Count(r.out, "Callback") > 0
              THEN /\ mutex' = {t}
                   /\ at' = [at EXCEPT ![t] = "callback"]
                   /\ hand' = hand
              ELSE /\ mutex' = {}
                   /\ at' = at
                   /\ hand' = [hand EXCEPT ![t] = None]
           /\ IF ~r.fsm.alive /\ ImplOwners = {}
              THEN impl_stale' = TRUE /\ terminated' \in BOOLEAN
              ELSE UNCHANGED <<impl_stale, terminated>>
    /\ cancel_observed' = (cancel_observed \/ (hand[t].ok /\ is_cancelled))
    /\ UNCHANGED <<started, remote_cancelled, is_cancelled, finish_done, queue_shutdown,
                   posted, posts, saw_not_ok, faulted>>
    /\ UNCHANGED posting
    /\ UNCHANGED notLockVars

\* the user callback returns, then onRequest and onEvent: the lock is released
CallbackReturn(t) ==
    /\ ~terminated
    /\ at[t] = "callback"
    /\ mutex' = mutex \ {t}
    /\ at' = [at EXCEPT ![t] = "idle"]
    /\ hand' = [hand EXCEPT ![t] = None]
    /\ UNCHANGED <<fsm, cq, started, remote_cancelled, is_cancelled, finish_done,
                   queue_shutdown, wire, posted, posts, handle, accepting, saw_not_ok,
                   cancel_observed, illegal, faulted, observed, deletes>>
    /\ UNCHANGED <<posting, terminated, impl_stale>>
    /\ UNCHANGED notLockVars

\* ServerStreamMethod::push / close is called with a notification: by the
\* user's thread, or by the user callback on the dispatcher thread it runs on.
\* weak_ptr::lock gives the block, or nothing once it is destroyed and the call
\* returns Finished.
PostCall(t, notification) ==
    /\ ~terminated
    /\ handle
    /\ posts < MaxPosts
    /\ at[t] = IF t = UserThread THEN "idle" ELSE "callback"
    /\ posts' = posts + 1
    /\ IF ImplFreed
       THEN UNCHANGED <<at, posting>>
       ELSE /\ at' = [at EXCEPT ![t] = "post"]
            /\ posting' = [posting EXCEPT ![t] = notification]
    /\ UNCHANGED <<fsm, cq, hand, started, remote_cancelled, is_cancelled, finish_done,
                   queue_shutdown, wire, posted, handle, accepting, saw_not_ok,
                   cancel_observed, illegal, faulted, observed, deletes>>
    /\ UNCHANGED <<mutex, terminated, impl_stale>>
    /\ UNCHANGED notLockVars

\* Impl::post on thread t once the mutex is free: the whole critical section,
\* and the return to the caller, which releases the block. The block exists,
\* held by the caller, even if the context was deleted in between.
PostLocked(t) ==
    /\ ~terminated
    /\ at[t] = "post"
    /\ mutex = {}
    /\ Apply(Post(fsm, posting[t]), cq)
    /\ posted' = Append(posted, posting[t])
    /\ at' = [at EXCEPT ![t] = IF t = UserThread THEN "idle" ELSE "callback"]
    /\ posting' = [posting EXCEPT ![t] = <<>>]
    /\ UNCHANGED <<hand, posts, started, remote_cancelled, is_cancelled, finish_done,
                   queue_shutdown, saw_not_ok, cancel_observed, faulted>>
    /\ UNCHANGED <<mutex, terminated, impl_stale>>
    /\ UNCHANGED notLockVars

\* Impl::post on a thread that owns the mutex already. std::mutex is not
\* recursive: the behaviour is undefined. The thread blocks on itself for ever, or
\* lock() throws std::system_error, which leaves the noexcept onEvent through
\* std::terminate.
PostSelfLock(t) ==
    /\ ~terminated
    /\ at[t] = "post"
    /\ t \in mutex
    /\ \/ at' = [at EXCEPT ![t] = "blocked"] /\ terminated' = terminated
       \/ at' = at /\ terminated' = TRUE
    /\ UNCHANGED serverVars
    /\ UNCHANGED <<mutex, posting, impl_stale>>
    /\ UNCHANGED notLockVars

\* the steps of thread t
ThreadStep(t) ==
    \/ t \in Threads /\ LockedDeliver(t)
    \/ t \in Threads /\ CallbackReturn(t)
    \/ PostLocked(t)
    \/ PostSelfLock(t)

LockNext ==
    \/ Run
    \/ \E t \in Threads, kind \in LockKinds, ok \in BOOLEAN : ~terminated /\ Dequeue(t, kind, ok)
    \/ \E t \in Threads : LockedDeliver(t)
    \/ \E t \in Threads : CallbackReturn(t)
    \/ \E t \in LockThreads, n \in Notifications : PostCall(t, n)
    \/ \E t \in LockThreads : PostLocked(t)
    \/ \E t \in LockThreads : PostSelfLock(t)

\* thread t is inside push / close
InPost(t) == at[t] \in {"post", "blocked"}

(* C37: the Impl block and its mutex are never accessed after their
   destruction: when an event handler makes the context delete itself while
   the lock of onEvent is held, the unlock that follows operates on a block
   that still exists, and so does every push or close that obtained the
   block before. *)
C37_BlockOutlivesLock == ~impl_stale

\* C20: every push or close on a server-stream handle, one made by the user
\* callback on the dispatcher thread included, eventually acquires the lock of
\* the FSM and returns, and every event delivery eventually releases the lock.
C20_NoDeadlock ==
    /\ \A t \in LockThreads : InPost(t) ~> ~InPost(t)
    /\ \A t \in Threads : (t \in mutex) ~> (t \notin mutex)

(***************************************************************************)
(* The client: engine, strand, stream registry and stream FSMs.            *)
(***************************************************************************)
FsmIds == 1..MaxFsms
Callbacks == 1..MaxLaunches

\* Options::Options : the defaults a call falls back to
kDefaultRelaunchPolicy == "Relaunch"
kDefaultRelaunchIntervalMs == 5000
kDefaultStreamDeadlineMs == 1000
\* ServerStreamContext::kReadFlags
kReadFlags == 1

NoFsm == [st |-> "unborn"]
NoEntry == [type_index |-> "none"]

\* ServerStreamContext::ServerStreamContext. st is the object's lifetime:
\* "pending" (constructed, run() not called yet), "running", "dead" (deleted by
\* the dispatcher after onEvent returned Dead), "dropped" (deleted unrun).
\* received/seen/terminal record what the runtime handed to this FSM and what
\* this FSM handed to the callback; origin is the FSM a clone was built by,
\* interval the reconnect interval its launch registered, waited the time the
\* reconnect timer was armed for when it started a clone.
NewContext(session_id, request, callback, deadline, reconnect_policy, context, origin) ==
    [st |-> "pending", session_id |-> session_id, request |-> request,
     callback |-> callback, deadline |-> deadline, reconnect_policy |-> reconnect_policy,
     context |-> context, state |-> "Connecting", status |-> "none",
     notification_buffer |-> 0, received |-> 0, seen |-> <<>>, terminal |-> "none",
     origin |-> origin, waited |-> 0, interval |-> 0]

CResult(c, aliveness, o) == [fsm |-> c, aliveness |-> aliveness, out |-> o]

Deliver1(c, event) ==
    IF event[1] = "status"
    THEN [c EXCEPT !.terminal = event[2]]
    ELSE [c EXCEPT !.seen = Append(@, event[2])]

\* ServerStreamContext::onError
COnError(c, state) ==
    LET f == [c EXCEPT !.state = "Finishing"]
    IN  IF state = "Running"
        THEN CResult(f, "Alive", << <<"Finish">> >>)
        ELSE CResult(Deliver1(f, <<"status", "ABORTED">>), "Dead", <<>>)

\* ServerStreamContext::onConnected
COnConnected(c) ==
    CResult([c EXCEPT !.state = "Reading", !.notification_buffer = 0],
            "Alive", << <<"Read">> >>)

\* a variant that re-arms the Read without handing the notification over
COnReadSkips(c) ==
    CResult([c EXCEPT !.notification_buffer = 0], "Alive", << <<"Read">> >>)

\* a variant that arms the next Read and reports the context Dead
COnReadThenDead(c) ==
    CResult([Deliver1(c, <<"note", c.notification_buffer>>) EXCEPT !.notification_buffer = 0],
            "Dead", << <<"Read">> >>)

\* ServerStreamContext::onRead
COnRead(c) ==
    CResult([Deliver1(c, <<"note", c.notification_buffer>>) EXCEPT !.notification_buffer = 0],
            "Alive", << <<"Read">> >>)

\* a variant that relaunches a stream whose status is CANCELLED as well
COnFinishedRelaunchesCancelled(c, state) ==
    LET should_relaunch == /\ state = "Running"
                           /\ c.reconnect_policy = "Relaunch"
    IN  IF ~should_relaunch
        THEN CResult(Deliver1(c, <<"status", c.status>>), "Dead", << <<"Cleanup">> >>)
        ELSE CResult(c, "Dead", << <<"Relaunch">> >>)

\* a variant that relaunches whatever the stream's reconnect policy says
COnFinishedIgnoresPolicy(c, state) ==
    LET should_relaunch == /\ state = "Running"
                           /\ c.status # "CANCELLED"
    IN  IF ~should_relaunch
        THEN CResult(Deliver1(c, <<"status", c.status>>), "Dead", << <<"Cleanup">> >>)
        ELSE CResult(c, "Dead", << <<"Relaunch">> >>)

\* ServerStreamContext::onFinished
COnFinished(c, state) ==
    LET should_relaunch == /\ state = "Running"
                           /\ c.reconnect_policy = "Relaunch"
                           /\ c.status # "CANCELLED"
    IN  IF ~should_relaunch
        THEN CResult(Deliver1(c, <<"status", c.status>>), "Dead", << <<"Cleanup">> >>)
        ELSE CResult(c, "Dead", << <<"Relaunch">> >>)

\* ServerStreamContext::onEvent
COnEvent(c, ok, state, flags) ==
    IF ~ok
    THEN COnError(c, state)
    ELSE CASE c.state = "Connecting" -> COnConnected(c)
           [] c.state = "Reading" ->
                  IF flags = kReadFlags
                  THEN COnRead(c)
                  ELSE CResult(COnRead(c).fsm, "Alive",
                               << <<"AssertFail">> >> \o COnRead(c).out)
           [] c.state = "Finishing" -> COnFinished(c, state)

\* a variant of the clone that keeps using the finished call's ClientContext
SelfCloneSameContext(c, id, fresh) ==
    [NewContext(c.session_id, c.request, c.callback, c.deadline, c.reconnect_policy,
                c.context, id) EXCEPT !.interval = c.interval]

\* ServerStreamContext::onFinished : self_clone, built around a fresh ClientContext
SelfClone(c, id, fresh) ==
    [NewContext(c.session_id, c.request, c.callback, c.deadline, c.reconnect_policy,
                fresh, id) EXCEPT !.interval = c.interval]

(***************************************************************************)
(* The registry entries and their timers.                                  *)
(***************************************************************************)
\* ServerStreamEntry::ServerStreamEntry
NewEntry(type_index, context, reconnect_interval) ==
    [type_index |-> type_index, context |-> context, timer |-> "idle", clone |-> 0,
     reconnect_interval |-> reconnect_interval, armed_for |-> 0]

TimerClosure(entry, ec) ==
    [op |-> "timer", fsm |-> entry.clone, ec |-> ec, waited |-> entry.armed_for]

\* boost::asio::steady_timer::cancel : the handler of a pending wait is queued
\* with operation_aborted; a handler already queued is out of reach
CancelledHandlers(entry) ==
    IF entry.timer = "waiting" THEN <<TimerClosure(entry, "operation_aborted")>> ELSE <<>>

\* the closures ServerStreamEntry::cancel queues for the entries of the sessions
\* in order
RECURSIVE CancelAllHandlers(_, _)
CancelAllHandlers(reg, order) ==
    IF order = <<>> THEN <<>>
    ELSE (IF reg[Head(order)] # NoEntry THEN CancelledHandlers(reg[Head(order)]) ELSE <<>>)
         \o CancelAllHandlers(reg, Tail(order))

\* ServerStreamEntry::cancel, on the entry itself
Cancelled(entry) == [entry EXCEPT !.timer = "idle", !.clone = 0]

Entries == {s \in Sessions : registry[s] # NoEntry}

IsStream(f) == fsms[f] # NoFsm

(***************************************************************************)
(* Initial state of the client: an engine just constructed (Standby, its    *)
(* strand thread running, nothing registered).                              *)
(***************************************************************************)
ClientInit ==
    /\ client_state = "Standby"
    /\ phase = "alive"
    /\ aborted = FALSE
    /\ strand = <<>>
    /\ registry = [s \in Sessions |-> NoEntry]
    /\ fsms = [f \in FsmIds |-> NoFsm]
    /\ ctag = [f \in FsmIds |-> "none"]
    /\ ctx_cancelled = {}
    /\ next_fsm = 1
    /\ reserved = 0
    /\ launches = 0
    /\ shutdowns = 0
    /\ runs = 0
    /\ rejected = {}
    /\ shutdown_processed = {}
    /\ active_at_destroy = {}

\* the strand thread takes the oldest closure, if it is of kind op
Executes(op) ==
    /\ ~aborted
    /\ phase \notin {"halted", "joined"}
    /\ strand # <<>>
    /\ Head(strand).op = op

\* a failed assert() terminates a build that has assertions and is passed over
\* by a build compiled with NDEBUG
AssertFalse == aborted' \in BOOLEAN

\* what the optionals of a call resolve to
Resolve(optional, unset, default) == IF optional = unset THEN default ELSE optional

(***************************************************************************)
(* The user's calls: each posts a closure to the strand.                   *)
(***************************************************************************)
\* ClientEngine::run, up to its wait for the future
RunCallUpTo(bound) ==
    /\ ~aborted /\ phase = "alive"
    /\ runs < bound
    /\ runs' = runs + 1
    /\ strand' = Append(strand, [op |-> "run"])
    /\ UNCHANGED <<client_state, phase, aborted, registry, fsms, ctag, ctx_cancelled,
                   next_fsm, reserved, launches, shutdowns, rejected, shutdown_processed,
                   active_at_destroy>>
    /\ UNCHANGED notClientVars

RunCall == RunCallUpTo(MaxRuns)

\* ClientEngine::launchServerStream. Request types are told apart by equality
\* only: the type of the first call is the one named R1.
LaunchCall(session_id, request, options) ==
    /\ ~aborted /\ phase = "alive"
    /\ launches = 0 => request = "R1"
    /\ launches < MaxLaunches /\ reserved < MaxFsms
    /\ launches' = launches + 1
    /\ reserved' = reserved + 1
    /\ strand' = Append(strand,
                        [op |-> "launch",
                         call |-> [session_id |-> session_id, request |-> request,
                                   callback |-> launches + 1,
                                   reconnect_policy |-> options.reconnect_policy,
                                   deadline |-> options.deadline,
                                   reconnect_interval |-> options.reconnect_interval]])
    /\ UNCHANGED <<client_state, phase, aborted, registry, fsms, ctag, ctx_cancelled,
                   next_fsm, shutdowns, runs, rejected, shutdown_processed,
                   active_at_destroy>>
    /\ UNCHANGED notClientVars

\* ClientEngine::shutdownServerStream
ShutdownCall(session_id) ==
    /\ ~aborted /\ phase = "alive"
    /\ shutdowns < MaxShutdowns
    /\ shutdowns' = shutdowns + 1
    /\ strand' = Append(strand, [op |-> "shutdown", session_id |-> session_id])
    /\ UNCHANGED <<client_state, phase, aborted, registry, fsms, ctag, ctx_cancelled,
                   next_fsm, reserved, launches, runs, rejected, shutdown_processed,
                   active_at_destroy>>
    /\ UNCHANGED notClientVars

(***************************************************************************)
(* The closures, as the strand runs them.                                  *)
(***************************************************************************)
\* the closure of ClientEngine::run. Leaving it without promise.set_value breaks
\* the promise: future.get() throws inside the noexcept run().
ExecRun ==
    /\ Executes("run")
    /\ strand' = Tail(strand)
    /\ IF phase # "alive" \/ client_state = "Running"
       THEN aborted' = TRUE /\ UNCHANGED <<client_state, workers>>
       ELSE client_state' = "Running" /\ workers' = workers + 1 /\ UNCHANGED aborted
    /\ UNCHANGED <<phase, registry, fsms, ctag, ctx_cancelled, next_fsm, reserved,
                   launches, shutdowns, runs, rejected, shutdown_processed,
                   active_at_destroy>>
    /\ UNCHANGED <<calls, singulars>>
    /\ UNCHANGED notEngineVars

Rejected(call, reason) ==
    /\ AssertFalse
    /\ rejected' = rejected \cup {[callback |-> call.callback, reason |-> reason,
                                   session_id |-> call.session_id,
                                   request |-> call.request]}
    /\ UNCHANGED <<registry, fsms, ctag, next_fsm>>

\* the ServerStreamContext doLaunchServerStream constructs for a call
Stream(call, grpc_context) ==
    NewContext(call.session_id, call.request, call.callback,
               Resolve(call.deadline, 0, kDefaultStreamDeadlineMs),
               Resolve(call.reconnect_policy, "unset", kDefaultRelaunchPolicy),
               grpc_context, 0)

\* ClientEngine::doLaunchServerStream past its two tests: the entry, the
\* stream, stream->run()
Launched(call) ==
    LET grpc_context == next_fsm
        stream == Stream(call, grpc_context)
        reconnect_interval == Resolve(call.reconnect_interval, 0, kDefaultRelaunchIntervalMs)
    IN  /\ registry' = [registry EXCEPT ![call.session_id] =
                           NewEntry(call.request, grpc_context, reconnect_interval)]
        /\ fsms' = [fsms EXCEPT ![next_fsm] = [stream EXCEPT !.st = "running",
                                                           !.interval = reconnect_interval]]
        /\ ctag' = [ctag EXCEPT ![next_fsm] = "start"]
        /\ next_fsm' = next_fsm + 1
        /\ UNCHANGED <<aborted, rejected>>

\* a variant without the test for a live entry of the session id: emplace_hint
\* leaves the old entry in place and a second stream is started
DoLaunchServerStreamNoIdCheck(call) ==
    LET type_already_exists ==
            \E s \in Sessions : registry[s] # NoEntry /\ registry[s].type_index = call.request
    IN  IF type_already_exists
        THEN Rejected(call, "type")
        ELSE IF registry[call.session_id] # NoEntry
             THEN /\ fsms' = [fsms EXCEPT ![next_fsm] =
                                  [Stream(call, next_fsm) EXCEPT !.st = "running"]]
                  /\ ctag' = [ctag EXCEPT ![next_fsm] = "start"]
                  /\ next_fsm' = next_fsm + 1
                  /\ UNCHANGED <<registry, aborted, rejected>>
             ELSE Launched(call)

\* a variant without the test for a live entry of the request type
DoLaunchServerStreamNoTypeCheck(call) ==
    IF registry[call.session_id] # NoEntry
    THEN Rejected(call, "session")
    ELSE Launched(call)

\* ClientEngine::doLaunchServerStream
DoLaunchServerStream(call) ==
    LET type_already_exists ==
            \E s \in Sessions : registry[s] # NoEntry /\ registry[s].type_index = call.request
    IN  IF type_already_exists
        THEN Rejected(call, "type")
        ELSE IF registry[call.session_id] # NoEntry
             THEN Rejected(call, "session")
             ELSE Launched(call)

\* the closure of ClientEngine::launchServerStream
ExecLaunch ==
    /\ Executes("launch")
    /\ strand' = Tail(strand)
    /\ IF phase # "alive" \/ client_state # "Running"
       THEN UNCHANGED <<registry, fsms, ctag, next_fsm, aborted, rejected>>
       ELSE DoLaunchServerStream(Head(strand).call)
    /\ UNCHANGED <<client_state, phase, ctx_cancelled, reserved, launches,
                   shutdowns, runs, shutdown_processed, active_at_destroy>>
    /\ UNCHANGED notClientVars

\* erasing an entry runs ~ServerStreamEntry, which cancels: the closures that
\* queues, and the context it cancels
Erase(session_id, rest) ==
    /\ registry' = [registry EXCEPT ![session_id] = NoEntry]
    /\ ctx_cancelled' = ctx_cancelled \cup {registry[session_id].context}
    /\ strand' = rest \o CancelledHandlers(registry[session_id])

\* ClientEngine::doShutdownServerStream
DoShutdownServerStream(session_id) ==
    IF registry[session_id] = NoEntry
    THEN /\ strand' = Tail(strand)
         /\ UNCHANGED <<registry, ctx_cancelled, shutdown_processed>>
    ELSE /\ Erase(session_id, Tail(strand))
         /\ shutdown_processed' = shutdown_processed \cup {session_id}

\* the closure of ClientEngine::shutdownServerStream
ExecShutdown ==
    /\ Executes("shutdown")
    /\ IF phase # "alive" \/ client_state # "Running"
       THEN /\ strand' = Tail(strand)
            /\ UNCHANGED <<registry, ctx_cancelled, shutdown_processed>>
       ELSE DoShutdownServerStream(Head(strand).session_id)
    /\ UNCHANGED <<client_state, phase, aborted, fsms, ctag, next_fsm, reserved,
                   launches, shutdowns, runs, rejected, active_at_destroy>>
    /\ UNCHANGED notClientVars

\* the effects of one event on FSM f, r = COnEvent(...), on the FSMs, the tags
\* and the strand: the operations it armed, the closures it posted, the clone
\* it built, and the deletion of a Dead context by the dispatch closure
ApplyEvent(f, r) ==
    LET relaunches == \E i \in 1..Len(r.out) : r.out[i][1] = "Relaunch"
        cleanups == \E i \in 1..Len(r.out) : r.out[i][1] = "Cleanup"
        armed == IF \E i \in 1..Len(r.out) : r.out[i][1] = "Finish" THEN "finish"
                 ELSE IF \E i \in 1..Len(r.out) : r.out[i][1] = "Read" THEN "read"
                 ELSE "none"
        after == [r.fsm EXCEPT !.st = IF r.aliveness = "Dead" THEN "dead" ELSE @]
    IN  /\ fsms' = IF relaunches
                   THEN [fsms EXCEPT ![f] = after,
                                     ![next_fsm] = SelfClone(r.fsm, f, next_fsm)]
                   ELSE [fsms EXCEPT ![f] = after]
        /\ next_fsm' = IF relaunches THEN next_fsm + 1 ELSE next_fsm
        /\ ctag' = [ctag EXCEPT ![f] = armed]
        /\ strand' = Tail(strand)
                     \o (IF cleanups
                         THEN <<[op |-> "cleanup", session_id |-> r.fsm.session_id]>>
                         ELSE <<>>)
                     \o (IF relaunches THEN <<[op |-> "relaunch", fsm |-> next_fsm]>> ELSE <<>>)
        /\ IF \E i \in 1..Len(r.out) : r.out[i][1] = "AssertFail"
           THEN AssertFalse
           ELSE UNCHANGED aborted

\* the dispatch closure of ClientEngine::processEvents
ExecDispatch ==
    /\ Executes("dispatch")
    /\ LET d == Head(strand)
       IN  ApplyEvent(d.fsm, COnEvent(fsms[d.fsm], d.ok, client_state, d.flags))
    /\ UNCHANGED <<client_state, phase, registry, ctx_cancelled, reserved, launches,
                   shutdowns, runs, rejected, shutdown_processed, active_at_destroy>>
    /\ UNCHANGED notClientVars

\* a variant that leaves the context of the finished call in the entry
ScheduleReconnectKeepsContext(entry, clone) ==
    [entry EXCEPT !.timer = "waiting",
                  !.clone = clone,
                  !.armed_for = entry.reconnect_interval]

\* ServerStreamEntry::scheduleReconnect, on the entry; expires_after cancels a
\* wait still pending
ScheduleReconnect(entry, clone) ==
    [entry EXCEPT !.context = fsms[clone].context,
                  !.timer = "waiting",
                  !.clone = clone,
                  !.armed_for = entry.reconnect_interval]

\* ClientEngine::relaunchStream : the closure try_relaunch
TryRelaunch(clone) ==
    LET session_id == fsms[clone].session_id
    IN  IF registry[session_id] = NoEntry
        THEN /\ AssertFalse
             /\ fsms' = [fsms EXCEPT ![clone].st = "dropped"]
             /\ strand' = Tail(strand)
             /\ UNCHANGED <<registry, ctx_cancelled>>
        ELSE IF client_state # "Running"
             THEN /\ Erase(session_id, Tail(strand))
                  /\ fsms' = [fsms EXCEPT ![clone].st = "dropped"]
                  /\ UNCHANGED aborted
             ELSE /\ registry' = [registry EXCEPT ![session_id] =
                                     ScheduleReconnect(registry[session_id], clone)]
                  /\ strand' = Tail(strand) \o CancelledHandlers(registry[session_id])
                  /\ UNCHANGED <<fsms, ctx_cancelled, aborted>>

ExecRelaunch ==
    /\ Executes("relaunch")
    /\ TryRelaunch(Head(strand).fsm)
    /\ UNCHANGED <<client_state, phase, ctag, next_fsm, reserved, launches,
                   shutdowns, runs, rejected, shutdown_processed, active_at_destroy>>
    /\ UNCHANGED notClientVars

\* ClientEngine::cleanupStream : the closure try_unregister
TryUnregister(session_id) ==
    IF registry[session_id] = NoEntry
    THEN /\ strand' = Tail(strand)
         /\ UNCHANGED <<registry, ctx_cancelled>>
    ELSE Erase(session_id, Tail(strand))

ExecCleanup ==
    /\ Executes("cleanup")
    /\ TryUnregister(Head(strand).session_id)
    /\ UNCHANGED <<client_state, phase, aborted, fsms, ctag, next_fsm, reserved,
                   launches, shutdowns, runs, rejected, shutdown_processed,
                   active_at_destroy>>
    /\ UNCHANGED notClientVars

\* the wait handler of ServerStreamEntry::scheduleReconnect
ExecTimer ==
    /\ Executes("timer")
    /\ strand' = Tail(strand)
    /\ LET h == Head(strand)
       IN  IF h.ec = "operation_aborted"
           THEN /\ fsms' = [fsms EXCEPT ![h.fsm].st = "dropped"]
                /\ UNCHANGED ctag
           ELSE /\ fsms' = [fsms EXCEPT ![h.fsm].st = "running", ![h.fsm].waited = h.waited]
                /\ ctag' = [ctag EXCEPT ![h.fsm] = "start"]
    /\ UNCHANGED <<client_state, phase, aborted, registry, ctx_cancelled, next_fsm,
                   reserved, launches, shutdowns, runs, rejected, shutdown_processed,
                   active_at_destroy>>
    /\ UNCHANGED notClientVars

\* a variant of the stop closure that leaves the state as it is
ExecStopKeepsState ==
    /\ Executes("stop")
    /\ registry' = [s \in Sessions |->
                       IF registry[s] = NoEntry THEN NoEntry ELSE Cancelled(registry[s])]
    /\ ctx_cancelled' = ctx_cancelled \cup {registry[s].context : s \in Entries}
    /\ strand' = Tail(strand) \o CancelAllHandlers(registry, SessionOrder)
    /\ phase' = "stopped"
    /\ UNCHANGED <<client_state, aborted, fsms, ctag, next_fsm, reserved, launches,
                   shutdowns, runs, rejected, shutdown_processed, active_at_destroy>>
    /\ UNCHANGED notClientVars

\* the stop closure of ClientEngine::~ClientEngine
ExecStop ==
    /\ Executes("stop")
    /\ client_state' = "Standby"
    /\ registry' = [s \in Sessions |->
                       IF registry[s] = NoEntry THEN NoEntry ELSE Cancelled(registry[s])]
    /\ ctx_cancelled' = ctx_cancelled \cup {registry[s].context : s \in Entries}
    /\ strand' = Tail(strand) \o CancelAllHandlers(registry, SessionOrder)
    /\ phase' = "stopped"
    /\ UNCHANGED <<aborted, fsms, ctag, next_fsm, reserved, launches, shutdowns,
                   runs, rejected, shutdown_processed, active_at_destroy>>
    /\ UNCHANGED notClientVars

(***************************************************************************)
(* The runtime: timers and the completion queue worker.                    *)
(***************************************************************************)
\* the reconnect timer of a session expires: its handler is queued
TimerExpire(session_id) ==
    /\ ~aborted
    /\ phase \notin {"halted", "joined"}
    /\ registry[session_id] # NoEntry
    /\ registry[session_id].timer = "waiting"
    /\ strand' = Append(strand, TimerClosure(registry[session_id], "ok"))
    /\ registry' = [registry EXCEPT ![session_id] = Cancelled(@)]
    /\ UNCHANGED <<client_state, phase, aborted, fsms, ctag, ctx_cancelled, next_fsm,
                   reserved, launches, shutdowns, runs, rejected, shutdown_processed,
                   active_at_destroy>>
    /\ UNCHANGED notClientVars

\* ClientEngine::processEvents : the operation of FSM f completes, queue.Next
\* returns its tag and the dispatch closure is posted. A completed Read filled
\* the notification buffer, a completed Finish the status.
Complete(f, ok, status) ==
    /\ ~aborted
    /\ phase # "joined"
    /\ ctag[f] # "none"
    /\ CASE ctag[f] = "start" ->
                /\ status = "OK"
                /\ UNCHANGED <<fsms, reserved>>
         [] ctag[f] = "read" ->
                /\ status = "OK"
                /\ ok => fsms[f].received < MaxNotes
                /\ fsms' = IF ok
                           THEN [fsms EXCEPT ![f].received = @ + 1,
                                             ![f].notification_buffer = fsms[f].received + 1]
                           ELSE fsms
                /\ UNCHANGED reserved
         [] ctag[f] = "finish" ->
                /\ ok
                /\ LET may_relaunch == status # "CANCELLED"
                                       /\ fsms[f].reconnect_policy = "Relaunch"
                   IN  /\ may_relaunch => reserved < MaxFsms
                       /\ reserved' = IF may_relaunch THEN reserved + 1 ELSE reserved
                /\ fsms' = [fsms EXCEPT ![f].status = status]
    /\ ctag' = [ctag EXCEPT ![f] = "none"]
    /\ strand' = IF phase = "halted"
                  THEN strand
                  ELSE Append(strand,
                              [op |-> "dispatch", fsm |-> f, ok |-> ok,
                               flags |-> (IF ctag[f] = "read" THEN kReadFlags ELSE 0)
                                         % (kFlagsMask + 1)])
    /\ UNCHANGED <<client_state, phase, aborted, registry, ctx_cancelled, next_fsm,
                   launches, shutdowns, runs, rejected, shutdown_processed,
                   active_at_destroy>>
    /\ UNCHANGED notClientVars

(***************************************************************************)
(* Singular calls of the client: SingularCallContext.                      *)
(***************************************************************************)
CallIds == 1..MaxSingulars

\* the requests of singular calls
Requests == {"q1", "q2"}

NoCall == [st |-> "unborn", tag |-> "none"]

\* SingularCallContext::SingularCallContext. status is a default-constructed
\* grpc::Status; delivered is what the completion callback was invoked with,
\* events the number of events dispatched to the context.
NewCall(request, callback) ==
    [st |-> "pending", request |-> request, callback |-> callback, response |-> "none",
     status |-> "OK", tag |-> "none", delivered |-> <<>>, events |-> 0]

\* SingularCallContext::run
CRun(c) == [c EXCEPT !.st = "running", !.tag = "finish"]

\* a variant that hands the response over whatever the status is
SCOnEventIgnoresStatus(c, ok) ==
    CResult([c EXCEPT !.delivered = Append(@, <<"response", c.response>>),
                      !.events = @ + 1], "Dead", <<>>)

\* SingularCallContext::onEvent
SCOnEvent(c, ok) ==
    LET result == IF ~ok \/ c.status # "OK"
                  THEN <<"status", c.status>> ELSE <<"response", c.response>>
    IN  CResult([c EXCEPT !.delivered = Append(@, result), !.events = @ + 1], "Dead", <<>>)

\* a variant of the closures' check that lets them through in any state
IdleNever == FALSE

\* the closures of the client API: !self || ClientState::Running != self->state
Idle == phase # "alive" \/ client_state # "Running"

\* ClientEngine::executeSingularCall
SingularCall(request) ==
    /\ ~aborted /\ phase = "alive"
    /\ singulars < MaxSingulars
    /\ singulars' = singulars + 1
    /\ strand' = Append(strand, [op |-> "singular",
                                 call |-> [request |-> request, callback |-> singulars + 1]])
    /\ UNCHANGED <<client_state, phase, aborted, registry, fsms, ctag, ctx_cancelled,
                   next_fsm, reserved, launches, shutdowns, runs, rejected,
                   shutdown_processed, active_at_destroy>>
    /\ UNCHANGED <<calls, workers>>
    /\ UNCHANGED notEngineVars

\* ClientEngine::doSingularCall
DoSingularCall(call) ==
    calls' = [calls EXCEPT ![call.callback] = CRun(NewCall(call.request, call.callback))]

\* the closure of ClientEngine::executeSingularCall
ExecSingular ==
    /\ Executes("singular")
    /\ strand' = Tail(strand)
    /\ IF Idle
       THEN UNCHANGED calls
       ELSE DoSingularCall(Head(strand).call)
    /\ UNCHANGED <<client_state, phase, aborted, registry, fsms, ctag, ctx_cancelled,
                   next_fsm, reserved, launches, shutdowns, runs, rejected,
                   shutdown_processed, active_at_destroy>>
    /\ UNCHANGED <<singulars, workers>>
    /\ UNCHANGED notEngineVars

\* ClientEngine::processEvents : the Finish of singular call c completes, it
\* filled the status and (with an OK status) the response; queue.Next returns
\* the tag and the dispatch closure is posted
CompleteSingular(c, ok, status) ==
    /\ ~aborted
    /\ phase # "joined"
    /\ workers > 0
    /\ calls[c].tag = "finish"
    /\ calls' = [calls EXCEPT ![c].tag = "none",
                              ![c].status = status,
                              ![c].response = IF status = "OK"
                                              THEN <<"answer", calls[c].request>>
                                              ELSE "none"]
    /\ strand' = IF phase = "halted"
                  THEN strand
                  ELSE Append(strand, [op |-> "dispatch_singular", call |-> c, ok |-> ok,
                                       flags |-> 0])
    /\ UNCHANGED <<client_state, phase, aborted, registry, fsms, ctag, ctx_cancelled,
                   next_fsm, reserved, launches, shutdowns, runs, rejected,
                   shutdown_processed, active_at_destroy>>
    /\ UNCHANGED <<singulars, workers>>
    /\ UNCHANGED notEngineVars

\* the dispatch closure of ClientEngine::processEvents, for a singular call:
\* the context is deleted when onEvent returns Dead
ExecDispatchSingular ==
    /\ Executes("dispatch_singular")
    /\ strand' = Tail(strand)
    /\ LET d == Head(strand)
           r == SCOnEvent(calls[d.call], d.ok)
       IN  calls' = [calls EXCEPT ![d.call] =
                        [r.fsm EXCEPT !.st = IF r.aliveness = "Dead" THEN "dead" ELSE @]]
    /\ UNCHANGED <<client_state, phase, aborted, registry, fsms, ctag, ctx_cancelled,
                   next_fsm, reserved, launches, shutdowns, runs, rejected,
                   shutdown_processed, active_at_destroy>>
    /\ UNCHANGED <<singulars, workers>>
    /\ UNCHANGED notEngineVars

\* no singular call was made, no queue worker was started
CallInit ==
    /\ calls = [c \in CallIds |-> NoCall]
    /\ singulars = 0
    /\ workers = 0

(***************************************************************************)
(* ClientEngine::~ClientEngine                                             *)
(***************************************************************************)
ActiveStreams == {f \in FsmIds : IsStream(f) /\ fsms[f].st \in {"pending", "running"}}

\* the destructor posts the stop closure and waits for it
Destroy ==
    /\ ~aborted
    /\ phase = "alive"
    /\ \A i \in 1..Len(strand) : strand[i].op # "run"
    /\ phase' = "stopping"
    /\ strand' = Append(strand, [op |-> "stop"])
    /\ active_at_destroy' = {fsms[f].callback : f \in ActiveStreams}
    /\ UNCHANGED <<client_state, aborted, registry, fsms, ctag, ctx_cancelled,
                   next_fsm, reserved, launches, shutdowns, runs, rejected,
                   shutdown_processed>>
    /\ UNCHANGED notClientVars

\* queue.Shutdown(); runtime_context.stop(): the strand runs nothing any more,
\* the closures still queued (and whatever is posted from now on) are abandoned
StopContext ==
    /\ ~aborted
    /\ phase = "stopped"
    /\ phase' = "halted"
    /\ strand' = <<>>
    /\ UNCHANGED <<client_state, aborted, registry, fsms, ctag,
                   ctx_cancelled, next_fsm, reserved, launches, shutdowns, runs, rejected,
                   shutdown_processed, active_at_destroy>>
    /\ UNCHANGED notClientVars

\* thread_pool.join(): the queue worker leaves once the shut down queue is drained
Join ==
    /\ ~aborted
    /\ phase = "halted"
    /\ \A f \in FsmIds : ctag[f] = "none"
    /\ \A c \in CallIds : calls[c].tag = "none"
    /\ phase' = "joined"
    /\ UNCHANGED <<client_state, aborted, strand, registry, fsms, ctag,
                   ctx_cancelled, next_fsm, reserved, launches, shutdowns, runs, rejected,
                   shutdown_processed, active_at_destroy>>
    /\ UNCHANGED notClientVars

ClientNext ==
    \/ RunCall
    \/ \E s \in Sessions, r \in Types, o \in CallOptions : LaunchCall(s, r, o)
    \/ \E s \in Sessions : ShutdownCall(s)
    \/ ExecRun
    \/ ExecLaunch
    \/ ExecShutdown
    \/ ExecDispatch
    \/ ExecRelaunch
    \/ ExecCleanup
    \/ ExecTimer
    \/ ExecStop
    \/ \E s \in Sessions : TimerExpire(s)
    \/ \E f \in FsmIds, ok \in BOOLEAN, st \in FinishStatuses : Complete(f, ok, st)
    \/ Destroy
    \/ StopContext
    \/ Join

(***************************************************************************)
(* Properties of the client engine.                                        *)
(***************************************************************************)
Streams == {f \in FsmIds : IsStream(f)}

\* the terminal status events the callback of a launch has received
TerminalEvents(callback) ==
    Cardinality({f \in Streams : fsms[f].callback = callback /\ fsms[f].terminal # "none"})

\* C6: once the destructor has joined the engine's threads, the callback of
\* every stream that was active when the destructor was entered has received
\* exactly one terminal status event.
C6_TerminalBeforeJoin ==
    phase = "joined" => \A callback \in active_at_destroy : TerminalEvents(callback) = 1

\* a stream that finished under policy Relaunch with a status other than
\* CANCELLED and delivered no terminal event
Relaunched(f) ==
    /\ fsms[f].st = "dead"
    /\ fsms[f].status \notin {"none", "CANCELLED"}
    /\ fsms[f].reconnect_policy = "Relaunch"
    /\ fsms[f].terminal = "none"

Clones == {g \in Streams : fsms[g].origin # 0}

LaunchStep ==
    /\ ~aborted /\ phase = "alive" /\ client_state = "Running"
    /\ strand # <<>> /\ Head(strand).op = "launch"
    /\ Len(strand') < Len(strand)

FirstIntact ==
    /\ registry' = registry
    /\ fsms' = fsms
    /\ ctag' = ctag
    /\ ctx_cancelled' = ctx_cancelled
    /\ next_fsm' = next_fsm
    /\ strand' = Tail(strand)

\* C8: a launch closure whose session id has a live registry entry creates no
\* FSM and starts no RPC, and leaves every entry (context and timer included),
\* every FSM and every RPC context as it was, none cancelled, no timer handler
\* queued.
C8_DuplicateSessionRejected ==
    [][(LaunchStep /\ registry[Head(strand).call.session_id] # NoEntry) => FirstIntact]_vars

C8_Witness ==
    \E r \in rejected, f \in Streams :
        /\ r.reason = "session"
        /\ fsms[f].session_id = r.session_id /\ fsms[f].callback # r.callback
        /\ fsms[f].request # r.request
        /\ fsms[f].st = "running" /\ fsms[f].state = "Reading"
        /\ registry[r.session_id] # NoEntry
        /\ registry[r.session_id].context = fsms[f].context
        /\ fsms[f].context \notin ctx_cancelled
        /\ Cardinality(Streams) = 1

TypeUnique ==
    \A s1 \in Entries, s2 \in Entries :
        registry[s1].type_index = registry[s2].type_index => s1 = s2

\* C9: the registry never holds two entries of one request type, and a launch
\* closure whose request type has a live entry creates no entry and no FSM and
\* leaves the streams there are running and uncancelled.
C9_RequestTypeUnique ==
    /\ []TypeUnique
    /\ [][(LaunchStep
             /\ \E s \in Entries : registry[s].type_index = Head(strand).call.request)
           => FirstIntact]_vars

C9_Witness ==
    \E r \in rejected, f \in Streams :
        /\ r.reason = "type"
        /\ fsms[f].request = r.request /\ fsms[f].session_id # r.session_id
        /\ fsms[f].st = "running" /\ fsms[f].state = "Reading"
        /\ registry[fsms[f].session_id] # NoEntry
        /\ registry[r.session_id] = NoEntry
        /\ fsms[f].context \notin ctx_cancelled
        /\ Cardinality(Streams) = 1

\* a stream whose Finish completed and whose FSM handled that completion
Finished(f) == fsms[f].st = "dead" /\ fsms[f].status # "none"

InOrder(f) == fsms[f].seen = [i \in 1..fsms[f].received |-> i]

StateCode(state) ==
    CASE state = "StandingBy" -> 42
      [] state = "AwaitingRequest" -> 1
      [] state = "AwaitingResponse" -> 666
      [] state = "AwaitingAlarm" -> 2
      [] state = "AwaitingFinish" -> 3

\* TagThisPointer::tagify(Flags) : Flags is std::bitset<2>, it keeps the two low
\* bits of the value it is built from
FlagsFrom(pointer) == pointer % (kFlagsMask + 1)

\* tagify(static_cast<Pointer>(state))
StateTag(kind, state) == [kind |-> kind, flags |-> FlagsFrom(StateCode(state))]

\* SingularMethodContext::SingularMethodContext
NewSingular == [state |-> "StandingBy", outbound_response |-> "none", alive |-> TRUE]

\* a variant that tags the request before it leaves StandingBy
SRunTagsStandingBy(s) ==
    Result([s EXCEPT !.state = "AwaitingRequest"],
           << <<"Accept", StateTag("request", s.state)>> >>)

\* SingularMethodContext::run
SRun(s) ==
    IF s.state # "StandingBy"
    THEN Result(s, << <<"AssertFail">> >>)
    ELSE LET r == [s EXCEPT !.state = "AwaitingRequest"]
         IN  Result(r, << <<"Accept", StateTag("request", r.state)>> >>)

\* a variant that invokes the user callback first
SOnRequestCallbackFirst(s, flags) ==
    Result([s EXCEPT !.state = "AwaitingResponse"],
           << <<"Callback", s.state>>, <<"Spawn">> >>)

\* SingularMethodContext::onRequest
SOnRequest(s, flags) ==
    LET checked == IF flags = FlagsFrom(StateCode("AwaitingRequest"))
                   THEN <<>> ELSE << <<"AssertFail">> >>
        r == [s EXCEPT !.state = "AwaitingResponse"]
    IN  Result(r, checked \o << <<"Spawn">>, <<"Callback", r.state>> >>)

\* a variant that issues Finish without leaving AwaitingAlarm
SOnAlarmKeepsState(s, flags) ==
    Result(s, << <<"Finish", s.outbound_response, StateTag("finish", s.state)>> >>)

\* SingularMethodContext::onAlarm
SOnAlarm(s, flags) ==
    LET checked == IF flags = FlagsFrom(StateCode("AwaitingAlarm")) /\ s.outbound_response # "none"
                   THEN <<>> ELSE << <<"AssertFail">> >>
        r == [s EXCEPT !.state = "AwaitingFinish"]
    IN  Result(r, checked \o << <<"Finish", s.outbound_response, StateTag("finish", r.state)>> >>)

\* SingularMethodContext::onFinished
SOnFinished(s, flags) ==
    LET checked == IF flags = FlagsFrom(StateCode("AwaitingFinish"))
                   THEN <<>> ELSE << <<"AssertFail">> >>
    IN  Result([s EXCEPT !.alive = FALSE], checked)

\* SingularMethodContext::onEvent
SOnEvent(s, ok, flags) ==
    IF ~ok
    THEN Suicide(s)
    ELSE CASE s.state \in {"StandingBy", "AwaitingResponse"} ->
                  Result(s, << <<"AssertFail">> >>)
           [] s.state = "AwaitingRequest" -> SOnRequest(s, flags)
           [] s.state = "AwaitingAlarm" -> SOnAlarm(s, flags)
           [] s.state = "AwaitingFinish" -> SOnFinished(s, flags)

\* a variant that arms the alarm without leaving AwaitingResponse
SRespondKeepsState(s, response) ==
    Result([s EXCEPT !.outbound_response = response],
           << <<"AlarmSet", StateTag("alarm", "AwaitingAlarm")>> >>)

\* SingularMethodContext::respond
SRespond(s, response) ==
    LET checked == IF s.state = "AwaitingResponse" THEN <<>> ELSE << <<"AssertFail">> >>
        r == [s EXCEPT !.state = "AwaitingAlarm", !.outbound_response = response]
    IN  Result(r, checked \o << <<"AlarmSet", StateTag("alarm", r.state)>> >>)

\* the contexts of one method
SIds == 1..MaxContexts

\* the context exists: constructed and not deleted
SLive(i) == i <= sm_born /\ sm[i].alive

\* the effects of context i, in the order the code performs them; the context
\* constructed by a Spawn is sm_born + 1 and its run() happens in place
SExpand(i, out) ==
    LET one(e) == IF e[1] = "Spawn"
                  THEN << <<"Spawn", i>> >> \o
                       [k \in 1..Len(SRun(NewSingular).out) |->
                            <<SRun(NewSingular).out[k][1], sm_born + 1,
                              SRun(NewSingular).out[k][2]>>]
                  ELSE << <<e[1], i>> \o Tail(e) >>
        RECURSIVE all(_)
        all(q) == IF q = <<>> THEN <<>> ELSE one(Head(q)) \o all(Tail(q))
    IN  all(out)

\* the tags the operations of ops put in flight
STags(ops) ==
    {[ctx |-> ops[k][2], kind |-> ops[k][Len(ops[k])].kind, flags |-> ops[k][Len(ops[k])].flags] :
        k \in {j \in 1..Len(ops) : ops[j][1] \in {"Accept", "AlarmSet", "Finish"}}}

\* the effects of one step of context i on everything but sm_hand, sm_log and
\* sm_owner
SApply(i, r) ==
    LET ops == SExpand(i, r.out)
        spawned == Count(r.out, "Spawn") > 0
    IN  /\ sm' = IF spawned
                 THEN [sm EXCEPT ![i] = r.fsm, ![sm_born + 1] = SRun(NewSingular).fsm]
                 ELSE [sm EXCEPT ![i] = r.fsm]
        /\ sm_born' = IF spawned THEN sm_born + 1 ELSE sm_born
        /\ sm_tags' = sm_tags \cup STags(ops)
        /\ sm_ops' = sm_ops \o SelectSeq(ops, LAMBDA e : e[1] # "AssertFail")
        /\ sm_illegal' = (sm_illegal \/ Count(r.out, "AssertFail") > 0)

\* a context just constructed by SingularMethodMetadataImpl::spawn
SingularInit ==
    /\ sm = [i \in SIds |-> NewSingular]
    /\ sm_born = 1
    /\ sm_tags = {}
    /\ sm_hand = None
    /\ sm_owner = [i \in SIds |-> "queue"]
    /\ sm_log = [i \in SIds |-> <<>>]
    /\ sm_ops = <<>>
    /\ sm_shutdown = FALSE
    /\ sm_gone = {}
    /\ sm_illegal = FALSE

\* SingularMethodMetadataImpl::spawn : context->run()
SingularRun ==
    /\ SLive(1) /\ sm[1].state = "StandingBy"
    /\ SApply(1, SRun(sm[1]))
    /\ UNCHANGED <<sm_hand, sm_owner, sm_log, sm_shutdown, sm_gone>>
    /\ UNCHANGED notSingularVars

\* with which ok the runtime completes the operation of a tag: a request is
\* accepted until the queue is shut down (and while the model has a context
\* left for the replacement), an alarm fires, Finish fails when the client is
\* gone
SDeliverable(tag, ok) ==
    CASE tag.kind = "request" -> IF sm_shutdown THEN ~ok ELSE ok /\ sm_born < MaxContexts
      [] tag.kind = "alarm" -> ok
      [] tag.kind = "finish" -> ok = (tag.ctx \notin sm_gone)

\* ServiceEngine::processQueue : queue->Next(&tag, &ok), unpacking the tag
SingularDequeue(tag, ok) ==
    /\ sm_hand = None
    /\ tag \in sm_tags
    /\ SDeliverable(tag, ok)
    /\ sm_tags' = sm_tags \ {tag}
    /\ sm_hand' = [ctx |-> tag.ctx, kind |-> tag.kind, ok |-> ok, flags |-> tag.flags]
    /\ UNCHANGED <<sm, sm_born, sm_owner, sm_log, sm_ops, sm_shutdown, sm_gone, sm_illegal>>
    /\ UNCHANGED notSingularVars

\* ServiceEngine::processQueue : context->onEvent(ok, flags). The callback of
\* onRequest hands the context to the user (unique_ptr in SingularMethod).
SingularDeliver ==
    /\ sm_hand # None
    /\ SLive(sm_hand.ctx)
    /\ LET i == sm_hand.ctx
           r == SOnEvent(sm[i], sm_hand.ok, sm_hand.flags)
       IN  /\ SApply(i, r)
           /\ sm_owner' = IF Count(r.out, "Callback") > 0
                          THEN [sm_owner EXCEPT ![i] = "user"] ELSE sm_owner
           /\ sm_log' = IF sm_hand.ok
                        THEN [sm_log EXCEPT ![i] = Append(@, sm[i].state)] ELSE sm_log
    /\ sm_hand' = None
    /\ UNCHANGED <<sm_shutdown, sm_gone>>
    /\ UNCHANGED notSingularVars

\* SingularMethod::respond : method_context.release()->respond(...)
Respond(i, response) ==
    /\ sm_owner[i] = "user" /\ SLive(i)
    /\ ~sm_shutdown
    /\ SApply(i, SRespond(sm[i], response))
    /\ sm_owner' = [sm_owner EXCEPT ![i] = "queue"]
    /\ UNCHANGED <<sm_hand, sm_log, sm_shutdown, sm_gone>>
    /\ UNCHANGED notSingularVars

\* ~SingularMethod without a response: the unique_ptr deletes the context
Discard(i) ==
    /\ sm_owner[i] = "user" /\ SLive(i)
    /\ sm' = [sm EXCEPT ![i].alive = FALSE]
    /\ sm_owner' = [sm_owner EXCEPT ![i] = "none"]
    /\ UNCHANGED <<sm_born, sm_tags, sm_hand, sm_log, sm_ops, sm_shutdown, sm_gone, sm_illegal>>
    /\ UNCHANGED notSingularVars

\* the client of call i goes away after its request was accepted
ClientGone(i) ==
    /\ SLive(i) /\ sm_log[i] # <<>> /\ i \notin sm_gone
    /\ sm_gone' = sm_gone \cup {i}
    /\ UNCHANGED <<sm, sm_born, sm_tags, sm_hand, sm_owner, sm_log, sm_ops, sm_shutdown, sm_illegal>>
    /\ UNCHANGED notSingularVars

\* the queue is shut down
SingularShutdown ==
    /\ ~sm_shutdown /\ sm_born > 1 /\ sm_hand = None
    /\ sm_shutdown' = TRUE
    /\ UNCHANGED <<sm, sm_born, sm_tags, sm_hand, sm_owner, sm_log, sm_ops, sm_gone, sm_illegal>>
    /\ UNCHANGED notSingularVars

SingularNext ==
    \/ SingularRun
    \/ \E tag \in sm_tags, ok \in BOOLEAN : SingularDequeue(tag, ok)
    \/ SingularDeliver
    \/ \E i \in SIds, response \in Responses : Respond(i, response)
    \/ \E i \in SIds : Discard(i)
    \/ \E i \in SIds : ClientGone(i)
    \/ SingularShutdown

(***************************************************************************)
(* Properties of the server singular FSM.                                  *)
(***************************************************************************)
\* the states in which a server singular FSM handles events, in order
SChain == <<"AwaitingRequest", "AwaitingAlarm", "AwaitingFinish">>

\* the state that follows state in the life of a server singular FSM
SSuccessor(state) ==
    CASE state = "StandingBy" -> "AwaitingRequest"
      [] state = "AwaitingRequest" -> "AwaitingResponse"
      [] state = "AwaitingResponse" -> "AwaitingAlarm"
      [] state = "AwaitingAlarm" -> "AwaitingFinish"
      [] state = "AwaitingFinish" -> "AwaitingFinish"

\* one step moves a context at most one state forward, or destroys it
SAdvances(i) ==
    IF sm[i].alive
    THEN \/ ~sm'[i].alive
         \/ sm'[i].state \in {sm[i].state, SSuccessor(sm[i].state)}
    ELSE sm'[i] = sm[i]

\* the delivery of an ok = false event destroys its context and does nothing else
SFailureDestroys ==
    (sm_hand # None /\ ~sm_hand.ok /\ sm_hand' = None) =>
        /\ ~sm'[sm_hand.ctx].alive
        /\ sm_ops' = sm_ops
        /\ sm_tags' = sm_tags

\* C11: every server singular FSM handles its ok = true events in states that
\* form a prefix of AwaitingRequest, AwaitingAlarm, AwaitingFinish, no assert of
\* the FSM fails (no event in StandingBy or AwaitingResponse), its state only
\* advances along StandingBy, AwaitingRequest, AwaitingResponse, AwaitingAlarm,
\* AwaitingFinish, destroyed, and an ok = false event destroys it without any
\* further runtime operation.
C11_SingularLinear ==
    /\ [](\A i \in SIds : IsPrefix(sm_log[i], SChain))
    /\ [](~sm_illegal)
    /\ [][(\A i \in 1..sm_born : SAdvances(i)) /\ SFailureDestroys]_vars

\* one FSM went through the whole chain and was destroyed, another one was
\* destroyed by an ok = false Finish, a third one by an ok = false request
C11_Witness ==
    \E i, j, k \in SIds :
        /\ sm_log[i] = SChain /\ ~sm[i].alive /\ i \notin sm_gone
        /\ sm_log[j] = SubSeq(SChain, 1, 2) /\ ~sm[j].alive /\ j \in sm_gone
        /\ sm_log[k] = <<>> /\ ~sm[k].alive /\ sm_shutdown

\* the state a server singular FSM is in while an operation of this kind is
\* pending
SPendingState(kind) ==
    CASE kind = "request" -> "AwaitingRequest"
      [] kind = "alarm" -> "AwaitingAlarm"
      [] kind = "finish" -> "AwaitingFinish"

\* the tag carries the state its context is in
SCarriesState(tag) ==
    /\ sm[tag.ctx].state = SPendingState(tag.kind)
    /\ tag.flags = StateCode(sm[tag.ctx].state)

\* C27: every tag a server singular FSM hands to the runtime carries the state
\* the FSM is in (AwaitingRequest = 1, AwaitingAlarm = 2, AwaitingFinish = 3) in
\* its flag bits, so the flags of every ok = true event equal the encoding of the
\* state in which the event is handled, and no flag assertion of onRequest,
\* onAlarm, onFinished fails.
C27_FlagsCarryState ==
    /\ StateCode("AwaitingRequest") = 1
    /\ StateCode("AwaitingAlarm") = 2
    /\ StateCode("AwaitingFinish") = 3
    /\ \A tag \in sm_tags : sm[tag.ctx].alive => SCarriesState(tag)
    /\ (sm_hand # None /\ sm[sm_hand.ctx].alive) => SCarriesState(sm_hand)
    /\ ~sm_illegal

\* a context handled its three events, and the Finish of another one is in the
\* dispatcher's hands with the flags of AwaitingFinish
C27_Witness ==
    /\ \E i \in SIds : sm_log[i] = SChain
    /\ sm_hand # None /\ sm_hand.ok /\ sm_hand.kind = "finish"
    /\ sm_hand.flags = StateCode("AwaitingFinish")
    /\ sm[sm_hand.ctx].alive

\* the tags of context i the completion queue holds or has just returned
STagsOf(i) ==
    Cardinality({tag \in sm_tags : tag.ctx = i})
    + (IF sm_hand # None /\ sm_hand.ctx = i THEN 1 ELSE 0)

\* C36: a live singular context that has been run is owned by the completion
\* queue, with exactly one of its tags in flight, in AwaitingRequest,
\* AwaitingAlarm and AwaitingFinish, or by the user's handle, with no tag in
\* flight, in AwaitingResponse. It is destroyed by the delivery of one of its
\* events or by the handle, and once destroyed it has neither a tag in flight
\* nor a handle, so that nothing can destroy it a second time.
C36_SingleOwner ==
    /\ [](\A i \in 1..sm_born :
            /\ (sm[i].alive /\ sm[i].state \in {"AwaitingRequest", "AwaitingAlarm",
                                                "AwaitingFinish"})
                   => sm_owner[i] = "queue" /\ STagsOf(i) = 1
            /\ (sm[i].alive /\ sm[i].state = "AwaitingResponse")
                   => sm_owner[i] = "user" /\ STagsOf(i) = 0
            /\ ~sm[i].alive => sm_owner[i] # "user" /\ STagsOf(i) = 0)
    /\ [][\A i \in 1..sm_born :
             (sm[i].alive /\ ~sm'[i].alive) =>
                 \/ /\ sm_owner[i] = "queue" /\ sm_hand # None /\ sm_hand.ctx = i
                    /\ sm_hand' = None /\ sm_owner'[i] = "queue"
                 \/ /\ sm_owner[i] = "user" /\ sm_owner'[i] = "none"
                    /\ sm_hand' = sm_hand]_vars

\* one context was deleted by the handle dropped without a response, one is in
\* the user's hands, one waits for a request with its tag in flight
C36_Witness ==
    \E i, j, k \in 1..sm_born :
        /\ ~sm[i].alive /\ sm_owner[i] = "none"
        /\ sm[j].alive /\ sm[j].state = "AwaitingResponse" /\ sm_owner[j] = "user"
        /\ sm[k].alive /\ sm[k].state = "AwaitingRequest" /\ STagsOf(k) = 1

(***************************************************************************)
(* Properties of the client engine's API.                                  *)
(***************************************************************************)
\* the strand runs the closure of ClientEngine::run in this step
RunsRunClosure == Executes("run") /\ strand' = Tail(strand) /\ phase' = phase

\* C12: run() on an engine that is already Running returns to its caller,
\* leaves the state Running and starts no second queue worker; a queue worker
\* is started only by the step from Standby to Running.
C12_RunIdempotent ==
    [][/\ (RunsRunClosure /\ client_state = "Running") =>
              (~aborted' /\ client_state' = "Running" /\ workers' = workers)
       /\ (workers' # workers) =>
              (client_state = "Standby" /\ client_state' = "Running")]_vars

\* the closures of executeSingularCall, launchServerStream, shutdownServerStream
ApiOps == {"singular", "launch", "shutdown"}

\* the strand runs the closure of an API call in this step: the oldest closure
\* is one and the strand does not merely grow
RunsApiClosure ==
    /\ strand # <<>>
    /\ Head(strand).op \in ApiOps
    /\ phase' = phase
    /\ ~IsPrefix(strand, strand')

\* C13: a closure of executeSingularCall, launchServerStream or
\* shutdownServerStream that runs while the engine is Standby (before run(), or
\* after the stop closure of the destructor) only leaves the strand: no call
\* context is created, no operation is armed, the registry is unchanged, no
\* callback is invoked.
C13_StandbyNoOp ==
    [][(RunsApiClosure /\ client_state = "Standby") =>
           /\ strand' = Tail(strand)
           /\ UNCHANGED <<calls, fsms, ctag, registry, next_fsm, rejected, ctx_cancelled,
                          shutdown_processed, client_state, aborted, workers>>]_vars

\* the engine was run and stopped, every API call was made and its closure has
\* run; the second singular call and the launch found the engine Standby
C13_Witness ==
    /\ phase = "stopped" /\ client_state = "Standby" /\ runs = 1
    /\ strand = <<>>
    /\ singulars = MaxSingulars /\ launches = 1 /\ shutdowns = 1
    /\ calls[1] # NoCall /\ calls[2] = NoCall
    /\ \A f \in FsmIds : fsms[f] = NoFsm

\* what the callback of a singular call is to be invoked with
ExpectedResult(c, ok) ==
    IF ok /\ c.status = "OK"
    THEN <<"response", <<"answer", c.request>>>>
    ELSE <<"status", c.status>>

\* C16: the one completion event of a singular call invokes its callback
\* exactly once, with the response iff ok and the status is OK and with the
\* status otherwise, and leaves the context destroyed; no context sees a second
\* event.
C16_SingularOnce ==
    /\ [](\A c \in CallIds :
            calls[c] # NoCall =>
                /\ calls[c].events <= 1
                /\ Len(calls[c].delivered) = calls[c].events
                /\ (calls[c].events = 1) <=> (calls[c].st = "dead")
                /\ (calls[c].st = "dead") => (calls[c].tag = "none"))
    /\ [](\A i \in 1..Len(strand) :
            strand[i].op = "dispatch_singular" => calls[strand[i].call].st = "running")
    /\ [][(Executes("dispatch_singular") /\ strand' = Tail(strand) /\ phase' = phase) =>
              LET d == Head(strand)
              IN  /\ calls'[d.call].delivered = <<ExpectedResult(calls[d.call], d.ok)>>
                  /\ calls'[d.call].st = "dead"]_vars

\* one call got its response, the other one a status that is not OK
C16_Witness ==
    /\ calls[1] # NoCall /\ calls[1].delivered = <<<<"response", <<"answer", calls[1].request>>>>>>
    /\ calls[2] # NoCall /\ calls[2].delivered = <<<<"status", "ABORTED">>>>

\* C14: once shutdownServerStream(s) was processed for a live session s, no
\* connection attempt for s is started any more: no clone of a stream of s has
\* its run() called while s, shut down, has no entry in the registry.
C14_ShutdownFinal ==
    [][\A f \in FsmIds :
          (IsStream(f) /\ fsms[f].origin # 0
           /\ fsms[f].st = "pending" /\ fsms'[f].st = "running") =>
              ~(/\ fsms[f].session_id \in shutdown_processed
                /\ registry[fsms[f].session_id] = NoEntry)]_vars

\* the strand runs the dispatch closure of a stream FSM in this step
RunsDispatch ==
    /\ Executes("dispatch")
    /\ phase' = phase
    /\ ~IsPrefix(strand, strand')

\* C17: the dispatch of an ok = true read completion to a stream FSM in Reading
\* invokes the callback once, with the notification that read brought, and arms
\* one Read again; so the callback has seen the notifications received in the
\* order of their completions, each once, all but the one still to be dispatched.
C17_ReadOrdering ==
    /\ [][RunsDispatch =>
             LET d == Head(strand)
                 c == fsms[d.fsm]
             IN  (d.ok /\ c.state = "Reading") =>
                     /\ c.notification_buffer = c.received
                     /\ fsms'[d.fsm].seen = Append(c.seen, c.notification_buffer)
                     /\ fsms'[d.fsm].terminal = c.terminal
                     /\ fsms'[d.fsm].state = "Reading" /\ fsms'[d.fsm].st = c.st
                     /\ ctag[d.fsm] = "none" /\ ctag'[d.fsm] = "read"]_vars
    /\ [](\A f \in Streams :
            /\ fsms[f].seen = [i \in 1..Len(fsms[f].seen) |-> i]
            /\ Len(fsms[f].seen) \in {fsms[f].received, fsms[f].received - 1})

\* a stream has handed over two notifications in order and waits for a third read
C17_Witness ==
    \E f \in Streams :
        /\ fsms[f].state = "Reading" /\ fsms[f].st = "running"
        /\ fsms[f].received = 2 /\ fsms[f].seen = <<1, 2>>
        /\ ctag[f] = "read"

\* C30: the dispatch of the completion of Finish to a stream FSM in Finishing
\* leaves the FSM dead and arms nothing for it. If the engine is not Running,
\* or the reconnect policy is Shutdown, or the status is CANCELLED, the callback
\* receives one terminal event, the status, the cleanup of the session is
\* posted to the engine and no clone is built. Otherwise the callback receives
\* nothing and one clone, the same session id, request, callback, deadline and
\* policy around a fresh ClientContext, is handed to the engine for a relaunch.
C30_TerminalDecision ==
    [][RunsDispatch =>
          LET d == Head(strand)
              c == fsms[d.fsm]
              after == fsms'[d.fsm]
              final == \/ client_state # "Running"
                       \/ c.reconnect_policy = "Shutdown"
                       \/ c.status = "CANCELLED"
          IN  (d.ok /\ c.state = "Finishing") =>
                  /\ after.st = "dead" /\ ctag'[d.fsm] = "none"
                  /\ after.seen = c.seen
                  /\ c.terminal = "none"
                  /\ IF final
                     THEN /\ after.terminal = c.status /\ c.status # "none"
                          /\ strand' = Append(Tail(strand),
                                              [op |-> "cleanup", session_id |-> c.session_id])
                          /\ next_fsm' = next_fsm
                          /\ \A g \in FsmIds \ {d.fsm} : fsms'[g] = fsms[g]
                     ELSE /\ after.terminal = "none"
                          /\ strand' = Append(Tail(strand), [op |-> "relaunch", fsm |-> next_fsm])
                          /\ next_fsm' = next_fsm + 1
                          /\ fsms[next_fsm] = NoFsm
                          /\ LET clone == fsms'[next_fsm]
                             IN  /\ clone.st = "pending" /\ clone.origin = d.fsm
                                 /\ clone.state = "Connecting"
                                 /\ clone.session_id = c.session_id
                                 /\ clone.request = c.request
                                 /\ clone.callback = c.callback
                                 /\ clone.deadline = c.deadline
                                 /\ clone.reconnect_policy = c.reconnect_policy
                                 /\ clone.context # c.context
                                 /\ \A g \in Streams : clone.context # fsms[g].context]_vars

\* a stream was relaunched without a terminal event, and its clone, finished
\* with CANCELLED, handed the status to the callback
C30_Witness ==
    \E f, g \in Streams :
        /\ Relaunched(f) /\ fsms[g].origin = f
        /\ fsms[g].st = "dead" /\ fsms[g].status = "CANCELLED"
        /\ fsms[g].terminal = "CANCELLED"
        /\ fsms[g].reconnect_policy = "Relaunch"
        /\ client_state = "Running"

\* the stop closure of the destructor has run
Stopped == phase \in {"stopped", "halted", "joined"}

AwaitsRelaunch(f) == \E i \in 1..Len(strand) : strand[i].op = "relaunch" /\ strand[i].fsm = f

\* the FSMs of a session the registry has been told of: the launched ones, and
\* the clones whose relaunch closure has run
Registered(s) == {f \in Streams : fsms[f].session_id = s /\ ~AwaitsRelaunch(f)}

MostRecent(s) == CHOOSE f \in Registered(s) : \A g \in Registered(s) : g <= f

RunsCleanup ==
    /\ Executes("cleanup")
    /\ phase' = phase
    /\ ~IsPrefix(strand, strand')

\* C33: the cleanup a stream FSM requested when it ended without a reconnect
\* erases no entry but its own: the entry it finds under the session id, if
\* any, holds the context of a stream that has ended with its terminal event,
\* never the context of a stream that is running or waits to be started.
C33_CleanupOwnEntry ==
    [][RunsCleanup =>
          LET s == Head(strand).session_id
          IN  registry[s] # NoEntry =>
                  \A f \in Streams :
                      fsms[f].context = registry[s].context =>
                          fsms[f].st = "dead" /\ fsms[f].terminal # "none"]_vars

\* the strand runs a relaunch closure in this step
RunsRelaunch ==
    /\ Executes("relaunch")
    /\ phase' = phase
    /\ ~IsPrefix(strand, strand')

\* C34: whenever the relaunch closure of a stream runs, the registry holds an
\* entry for the session id of the clone it carries.
C34_RelaunchFindsEntry ==
    [][RunsRelaunch => registry[fsms[Head(strand).fsm].session_id] # NoEntry]_vars

\* the dispatch closures on the strand that own the context of stream FSM f
OwningClosures(f) ==
    Cardinality({i \in 1..Len(strand) : strand[i].op = "dispatch" /\ strand[i].fsm = f})

\* the dispatch closures on the strand that own the context of singular call c
OwningSingularClosures(c) ==
    Cardinality({i \in 1..Len(strand) :
                    strand[i].op = "dispatch_singular" /\ strand[i].call = c})

\* the completion queue or a dispatch closure holds the context of FSM f
Held(f) == ctag[f] # "none" \/ OwningClosures(f) > 0

(* C40: a client call context has at most one tag in flight: it is either
   awaited on the completion queue or owned by one dispatch closure, never
   both and never by two closures, and only while it is alive. An operation
   is started for a context only when none of its tags is in flight, a
   dispatch closure runs on a live context only, and a context is destroyed
   by the dispatch closure that owns it, once, with no tag and no closure
   left behind; so the closures discarded at shutdown own distinct live
   contexts. *)
C40_OneTagPerContext ==
    /\ [](\A f \in FsmIds :
             /\ ~(ctag[f] # "none" /\ OwningClosures(f) > 0)
             /\ OwningClosures(f) <= 1
             /\ Held(f) => fsms[f].st = "running")
    /\ [](\A c \in CallIds :
             /\ ~(calls[c].tag # "none" /\ OwningSingularClosures(c) > 0)
             /\ OwningSingularClosures(c) <= 1
             /\ (calls[c].tag # "none" \/ OwningSingularClosures(c) > 0) =>
                    calls[c].st = "running")
    /\ [][\A f \in FsmIds :
             /\ (ctag'[f] # "none" /\ ctag'[f] # ctag[f]) => ctag[f] = "none"
             /\ (fsms'[f].st = "running" /\ fsms[f].st # "running") =>
                    (ctag[f] = "none" /\ fsms[f].st \in {"unborn", "pending"})
             /\ (fsms'[f].st = "dead" /\ fsms[f].st # "dead") =>
                    /\ fsms[f].st = "running"
                    /\ RunsDispatch /\ Head(strand).fsm = f
                    /\ ctag'[f] = "none" /\ OwningClosures(f)' = 0]_vars
    /\ [][RunsDispatch => fsms[Head(strand).fsm].st = "running"]_vars

\* the engine is being destroyed while one stream context is owned by a
\* dispatch closure still on the strand and another, connected by an earlier
\* dispatch, awaits the completion of its read
C40_Witness ==
    /\ phase = "stopped"
    /\ \E f, g \in FsmIds :
          /\ f # g
          /\ OwningClosures(f) = 1 /\ ctag[f] = "none"
          /\ ctag[g] = "read" /\ OwningClosures(g) = 0

\* the stream one session launches where the singular calls are made: it is not
\* relaunched
EngineStream == [reconnect_policy |-> "Shutdown", deadline |-> 0, reconnect_interval |-> 0]

\* the engine with its singular calls and the stream of one session, whose
\* server is not reachable: StartCall and Read fail, Finish reports CANCELLED
EngineNext ==
    \/ RunCallUpTo(MaxEngineRuns)
    \/ launches < 1 /\ LaunchCall("s1", "R1", EngineStream)
    \/ ShutdownCall("s1")
    \/ \E q \in Requests : SingularCall(q)
    \/ ExecRun
    \/ ExecLaunch
    \/ ExecShutdown
    \/ ExecSingular
    \/ ExecDispatch
    \/ ExecDispatchSingular
    \/ ExecCleanup
    \/ ExecStop
    \/ \E f \in FsmIds : Complete(f, ctag[f] = "finish", IF ctag[f] = "finish" THEN "CANCELLED" ELSE "OK")
    \/ \E c \in CallIds, ok \in BOOLEAN, st \in FinishStatuses : CompleteSingular(c, ok, st)
    \/ Destroy
    \/ StopContext
    \/ Join

(***************************************************************************)
(* The server's method registry: ServiceEngine::register...Method.         *)
(***************************************************************************)
\* protobuf message types and the methods of the service: input and output
\* type of each method descriptor
MessageTypes == {"A", "B"}
Descriptors == {"m1", "m2"}
input_type(d) == IF d = "m1" THEN "A" ELSE "B"
output_type(d) == IF d = "m1" THEN "B" ELSE "A"

\* no metadata registered for a descriptor
NoMetadata == 0

\* what a registration threw
NoThrow == [type |-> "none", what |-> "none"]
InvalidArgument(what) == [type |-> "std::invalid_argument", what |-> what]

\* a variant of std::map::emplace that replaces the value of a present key
EmplaceReplaces(map, key, value) ==
    [map |-> [map EXCEPT ![key] = value], ok |-> map[key] = NoMetadata]

\* std::map::emplace : inserts if the key is absent, reports whether it did
Emplace(map, key, value) ==
    IF map[key] = NoMetadata
    THEN [map |-> [map EXCEPT ![key] = value], ok |-> TRUE]
    ELSE [map |-> map, ok |-> FALSE]

\* ServiceEngine::checkDescriptorsMatch for the request and the response type
DescriptorsMatch(d, request, response) ==
    request = input_type(d) /\ response = output_type(d)

\* the part of a registration call common to both kinds; others is the map of
\* the other kind
Register(kind, map, d, request, response, duplicated) ==
    LET e == Emplace(map, d, registrations + 1)
        thrown == IF ~DescriptorsMatch(d, request, response)
                  THEN InvalidArgument("descriptors mismatch")
                  ELSE IF ~e.ok THEN InvalidArgument(duplicated) ELSE NoThrow
    IN  /\ registrations < MaxRegistrations
        /\ registrations' = registrations + 1
        /\ last_registration' = [kind |-> kind, descriptor |-> d, thrown |-> thrown]
        /\ IF DescriptorsMatch(d, request, response)
           THEN IF kind = "singular"
                THEN singular_methods' = e.map /\ UNCHANGED server_stream_methods
                ELSE server_stream_methods' = e.map /\ UNCHANGED singular_methods
           ELSE UNCHANGED <<singular_methods, server_stream_methods>>
        /\ UNCHANGED notRegistryVars

\* ServiceEngine::registerSingularMethod<InboundRequest, OutboundResponse>
RegisterSingularMethod(d, request, response) ==
    Register("singular", singular_methods, d, request, response, "duplicated singular call")

\* ServiceEngine::registerServerStreamMethod<InboundRequest, OutboundNotification>
RegisterServerStreamMethod(d, request, response) ==
    Register("server stream", server_stream_methods, d, request, response,
             "duplicated server stream call")

\* ServiceEngine::ServiceEngine : nothing registered
RegistryInit ==
    /\ singular_methods = [d \in Descriptors |-> NoMetadata]
    /\ server_stream_methods = [d \in Descriptors |-> NoMetadata]
    /\ registrations = 0
    /\ last_registration = [kind |-> "none", descriptor |-> "none", thrown |-> NoThrow]

RegistryNext ==
    \/ \E d \in Descriptors, request, response \in MessageTypes :
           RegisterSingularMethod(d, request, response)
    \/ \E d \in Descriptors, request, response \in MessageTypes :
           RegisterServerStreamMethod(d, request, response)

\* the map a registration of this kind goes to
MethodsOf(kind) == IF kind = "singular" THEN singular_methods ELSE server_stream_methods

\* C15: registering a handler for a descriptor that already has a handler of
\* that kind throws std::invalid_argument and leaves both registries as they
\* were: the descriptor still maps to the handler registered first.
C15_DuplicateRegistrationRejected ==
    [][(registrations' = registrations + 1) =>
          LET call == last_registration'
          IN  MethodsOf(call.kind)[call.descriptor] # NoMetadata =>
                  /\ call.thrown.type = "std::invalid_argument"
                  /\ singular_methods' = singular_methods
                  /\ server_stream_methods' = server_stream_methods]_vars

\* a registration with matching types was rejected as a duplicate, the handler
\* registered first is still there
C15_Witness ==
    /\ last_registration.thrown \in {InvalidArgument("duplicated singular call"),
                                     InvalidArgument("duplicated server stream call")}
    /\ MethodsOf(last_registration.kind)[last_registration.descriptor] \in 1..(registrations - 1)

\* C22: after any sequence of registerSingularMethod and
\* registerServerStreamMethod calls, accepted or rejected, every method
\* descriptor has at most one registered handler in the singular and the
\* server-stream registry taken together.
C22_OneHandlerPerDescriptor ==
    \A d \in Descriptors :
        singular_methods[d] = NoMetadata \/ server_stream_methods[d] = NoMetadata

(***************************************************************************)
(* The accepting FSMs of one completion queue: ServiceEngine::run posts a  *)
(* worker per dispatcher thread, each worker spawns handlers_per_thread    *)
(* FSMs per registered method and then processes the queue. One singular   *)
(* and one server-stream method are registered.                            *)
(***************************************************************************)
\* setupQueue walks singular_methods, then server_stream_methods
RegisteredKinds == <<"singular", "server stream">>
SetupSpawns == Len(RegisteredKinds) * HandlersPerThread

\* ServerStreamMethodContext::Impl::Impl
NewServerStream ==
    [state |-> "StandingBy", alarm_count |-> 0, drop_notifications |-> FALSE,
     notifications_queue |-> <<>>, alive |-> TRUE]

\* metadata->spawn : (new Context(...))->run()
SpawnedFsm(kind) ==
    IF kind = "singular" THEN SRun(NewSingular).fsm ELSE RunImpl(NewServerStream).fsm

\* context->onEvent(ok, flags) for the request completion of an FSM that spawn
\* left waiting
RequestEvent(kind, ok) ==
    IF kind = "singular"
    THEN SOnEvent(SpawnedFsm(kind), ok, StateTag("request", "AwaitingRequest").flags)
    ELSE OnEvent(SpawnedFsm(kind), ok, FlagsOf("request"), FALSE)

\* 1 if the FSM is alive and in AwaitingRequest
Accepting(s) == IF s.alive /\ s.state = "AwaitingRequest" THEN 1 ELSE 0

\* ServiceEngine::ServiceEngine, and run() up to the workers being posted
PopulationInit ==
    /\ setup = [t \in Threads |-> 0]
    /\ population = [k \in {"singular", "server stream"} |-> 0]
    /\ pop_hand = [t \in Threads |-> None]
    /\ pop_accepted = 0
    /\ pop_shutdown = FALSE

\* ServiceEngine::setupQueue on thread t : one metadata->spawn
SetupSpawn(t) ==
    /\ setup[t] < SetupSpawns
    /\ LET kind == RegisteredKinds[(setup[t] \div HandlersPerThread) + 1]
       IN  population' = [population EXCEPT ![kind] = @ + Accepting(SpawnedFsm(kind))]
    /\ setup' = [setup EXCEPT ![t] = @ + 1]
    /\ UNCHANGED <<pop_hand, pop_accepted, pop_shutdown>>
    /\ UNCHANGED notPopulationVars

\* request tags of a kind that are on the queue
RequestsQueued(kind) ==
    population[kind] - Cardinality({t \in Threads : pop_hand[t] # None /\ pop_hand[t].kind = kind})

\* ServiceEngine::processQueue on thread t : queue->Next returns the request
\* completion of an FSM of this kind; ok until the queue is shut down
PopulationDequeue(t, kind, ok) ==
    /\ setup[t] = SetupSpawns
    /\ pop_hand[t] = None
    /\ RequestsQueued(kind) > 0
    /\ ok = ~pop_shutdown
    /\ ok => pop_accepted < MaxAccepted
    /\ pop_hand' = [pop_hand EXCEPT ![t] = [kind |-> kind, ok |-> ok]]
    /\ pop_accepted' = IF ok THEN pop_accepted + 1 ELSE pop_accepted
    /\ UNCHANGED <<setup, population, pop_shutdown>>
    /\ UNCHANGED notPopulationVars

\* ServiceEngine::processQueue on thread t : context->onEvent(ok, flags)
PopulationDeliver(t) ==
    /\ pop_hand[t] # None
    /\ LET kind == pop_hand[t].kind
           r == RequestEvent(kind, pop_hand[t].ok)
       IN  population' = [population EXCEPT ![kind] =
                              @ - Accepting(SpawnedFsm(kind)) + Accepting(r.fsm)
                                + Count(r.out, "Spawn") * Accepting(SpawnedFsm(kind))]
    /\ pop_hand' = [pop_hand EXCEPT ![t] = None]
    /\ UNCHANGED <<setup, pop_accepted, pop_shutdown>>
    /\ UNCHANGED notPopulationVars

\* ServiceEngine::~ServiceEngine : queue->Shutdown()
PopulationShutdown ==
    /\ ~pop_shutdown
    /\ pop_shutdown' = TRUE
    /\ UNCHANGED <<setup, population, pop_hand, pop_accepted>>
    /\ UNCHANGED notPopulationVars

PopulationNext ==
    \/ \E t \in Threads : SetupSpawn(t)
    \/ \E t \in Threads, kind \in {"singular", "server stream"}, ok \in BOOLEAN :
           PopulationDequeue(t, kind, ok)
    \/ \E t \in Threads : PopulationDeliver(t)
    \/ PopulationShutdown

\* every dispatcher thread of the queue has finished setupQueue
SetupDone == \A t \in Threads : setup[t] = SetupSpawns

Pointers == 0..(2^PointerBits - 1)

\* addresses a call context may have: checkFlagsFit demands an alignment above
\* kFlagsMask, alignments are powers of two
Aligned == {p \in Pointers : p % (kFlagsMask + 1) = 0}

\* a | b and a & b on Pointers, bit by bit
RECURSIVE BitOr(_, _)
BitOr(a, b) ==
    IF a = 0 THEN b
    ELSE IF b = 0 THEN a
    ELSE (IF a % 2 = 1 \/ b % 2 = 1 THEN 1 ELSE 0) + 2 * BitOr(a \div 2, b \div 2)

RECURSIVE BitAnd(_, _)
BitAnd(a, b) ==
    IF a = 0 \/ b = 0 THEN 0
    ELSE (IF a % 2 = 1 /\ b % 2 = 1 THEN 1 ELSE 0) + 2 * BitAnd(a \div 2, b \div 2)

\* ~a on a Pointer
BitNot(a) == (2^PointerBits - 1) - a

\* EnablePointerTagThis::tagify(Flags) : the tag of the object at address this
Tagify(this, flags) == BitOr(this, flags)

\* a variant of the dispatcher that keeps one flag bit only
UnpackFlagsLowBit(tag) == BitAnd(tag, 1)

\* processQueue / processEvents : memory_address & kFlagsMask
UnpackFlags(tag) == BitAnd(tag, kFlagsMask)

\* processQueue / processEvents : memory_address & ~kFlagsMask
UnpackContext(tag) == BitAnd(tag, BitNot(kFlagsMask))

\* where no tag is being followed
TagIdle ==
    /\ tag_pc = "idle"
    /\ tag_this = 0 /\ tag_flags = 0 /\ tag_value = 0
    /\ tag_unpacked = [context |-> 0, flags |-> 0]

\* a context at any aligned address is about to arm an operation with any flags
TagInit ==
    /\ ServerInit /\ ClientInit /\ SingularInit /\ CallInit /\ RegistryInit /\ LockInit /\ OptionsInit /\ PopulationInit
    /\ tag_pc = "arming"
    /\ tag_this \in Aligned /\ tag_flags \in 0..kFlagsMask
    /\ tag_value = 0
    /\ tag_unpacked = [context |-> 0, flags |-> 0]

\* the context hands tagify(flags) to the runtime
ArmTag ==
    /\ tag_pc = "arming"
    /\ tag_value' = Tagify(tag_this, tag_flags)
    /\ tag_pc' = "queued"
    /\ UNCHANGED <<tag_this, tag_flags, tag_unpacked>>
    /\ UNCHANGED notTagVars

\* the dispatcher gets the tag back from Next and unpacks it
UnpackTag ==
    /\ tag_pc = "queued"
    /\ tag_unpacked' = [context |-> UnpackContext(tag_value), flags |-> UnpackFlags(tag_value)]
    /\ tag_pc' = "dispatched"
    /\ UNCHANGED <<tag_this, tag_flags, tag_value>>
    /\ UNCHANGED notTagVars

TagNext == ArmTag \/ UnpackTag

\* C18: for every context address aligned to at least 4 and every flags value
\* in 0..3, what the dispatcher unpacks from tagify(flags) is that address and
\* those flags.
C18_TagRoundTrip ==
    (tag_pc = "dispatched") =>
        tag_unpacked = [context |-> tag_this, flags |-> tag_flags]

\* the highest aligned address went through with all flag bits set
C18_Witness ==
    /\ tag_pc = "dispatched"
    /\ tag_flags = kFlagsMask
    /\ tag_this = 2^PointerBits - (kFlagsMask + 1)
    /\ tag_value = 2^PointerBits - 1

(***************************************************************************)
(* The accept path of both server FSMs: construction, run(), the request   *)
(* completion and what onRequest does with it.                             *)
(***************************************************************************)
AcceptNext ==
    \/ Run
    \/ \E t \in Threads, ok \in BOOLEAN : Dequeue(t, "request", ok)
    \/ \E t \in Threads : Deliver(t)
    \/ QueueShutdown
    \/ SingularNext

\* thread t hands an ok = true request completion to a server-stream FSM in
\* AwaitingRequest
StreamAccepts(t) ==
    /\ hand[t] # None /\ hand'[t] = None
    /\ hand[t].kind = "request" /\ hand[t].ok
    /\ fsm.alive /\ fsm.state = "AwaitingRequest"

\* the dispatcher hands an ok = true request completion to a server singular
\* FSM in AwaitingRequest
SingularAccepts ==
    /\ sm_hand # None /\ sm_hand' = None
    /\ sm_hand.kind = "request" /\ sm_hand.ok
    /\ sm[sm_hand.ctx].alive /\ sm[sm_hand.ctx].state = "AwaitingRequest"

\* the k-th runtime operation of the singular contexts is a user callback that
\* runs after the replacement of its context was constructed and armed, and
\* finds its own context out of AwaitingRequest
SCallbackAfterReplacement(k) ==
    /\ sm_ops[k][3] # "AwaitingRequest"
    /\ \E j \in 2..(k - 1) :
          /\ sm_ops[j - 1] = <<"Spawn", sm_ops[k][2]>>
          /\ sm_ops[j][1] = "Accept"
          /\ sm_ops[j][2] \in 1..sm_born
          /\ sm_ops[j][3] = StateTag("request", "AwaitingRequest")

\* C19: when a server singular or server-stream FSM in AwaitingRequest gets its
\* request completion with ok = true, the user callback is invoked, and by then
\* a replacement FSM has been constructed and armed (run() called, the request
\* tagged AwaitingRequest in flight) and the accepting FSM has left
\* AwaitingRequest.
C19_ReplacementBeforeCallback ==
    /\ [](\A k \in 1..Len(observed) :
            observed[k].state = "AwaitingNotifications" /\ observed[k].accepting >= 1)
    /\ [](\A k \in 1..Len(sm_ops) :
            sm_ops[k][1] = "Callback" => SCallbackAfterReplacement(k))
    /\ [][(\E t \in Threads : StreamAccepts(t)) =>
            Len(observed') = Len(observed) + 1 /\ accepting' = accepting + 1]_vars
    /\ [][SingularAccepts =>
            /\ sm_born' = sm_born + 1
            /\ sm'[sm_born'].state = "AwaitingRequest"
            /\ sm_ops'[Len(sm_ops')] = <<"Callback", sm_hand.ctx, "AwaitingResponse">>]_vars

\* both kinds of FSM accepted a request and invoked the user callback
C19_Witness ==
    /\ Len(observed) = 1 /\ handle /\ fsm.state = "AwaitingNotifications"
    /\ \E k \in 1..Len(sm_ops) : sm_ops[k][1] = "Callback"

Init ==
    /\ ServerInit /\ ClientInit /\ SingularInit /\ CallInit /\ RegistryInit /\ TagIdle
    /\ LockInit /\ OptionsInit /\ PopulationInit
Next == ServerNext
Spec == Init /\ [][Next]_vars
ClientSpec == Init /\ [][ClientNext]_vars
SingularSpec == Init /\ [][SingularNext]_vars
EngineSpec == Init /\ [][EngineNext]_vars
RegistrySpec == Init /\ [][RegistryNext]_vars
TagSpec == TagInit /\ [][TagNext]_vars
AcceptSpec == Init /\ [][AcceptNext]_vars
LockSpec == Init /\ [][LockNext]_vars
\* every thread that can take a step eventually takes one
LockFairSpec == LockSpec /\ \A t \in LockThreads : WF_vars(ThreadStep(t))
OptionsSpec == Init /\ [][OptionsNext]_vars
PopulationSpec == Init /\ [][PopulationNext]_vars

====
